---- MODULE Spec2Model ----
(***************************************************************************)
(* State-machine model of langflow's realtime voice relay                  *)
(* (src/backend/base/langflow/api/v1/voice_mode.py).                       *)
(*                                                                         *)
(* Two endpoints are modelled over one set of variables:                   *)
(*   /ws/flow_as_tool/{flow_id}  flow_as_tool_websocket (lines 216-580)    *)
(*   /ws/{flow_id}               flow_audio_websocket   (lines 583-697)    *)
(* Every coroutine is a process with a program position; an action is the  *)
(* code a coroutine runs between two suspension points (await).  A socket  *)
(* send writes its message when it is called and raises when the socket is *)
(* closed.  Events the peers send are inputs drawn from small sets.        *)
(***************************************************************************)
EXTENDS Integers, Sequences, FiniteSets, TLC

\* ---------------------------------------------------------------- bounds
MaxUpEvents == 4      \* upstream events delivered to forward_to_client
MaxClientMsgs == 2    \* messages the client sends in one session
MaxLines == 2         \* lines the executor's progress streams yield
MaxFrames == 2        \* audio frames one TTS call yields
MaxTextEvents == 3    \* text events the upstream peer sends in one session
MaxInputs == 4        \* items and timeouts one chunker run takes
MaxFrameBytes == 1920 \* length of the longest frame given to the resampler

\* ------------------------------------------------------- program constants
BYTES_PER_24K_FRAME == 960
BYTES_PER_16K_FRAME == 640
BYTES_PER_SAMPLE == 2
NoChatInputCode == 4004             \* close code of line 608
NormalClosure == 1000               \* close() without a code (694)
ResampledSamples == 320             \* num of resample(samples_24k, 320)

ChunkSizes == {0, 480, 960, 1920}   \* decoded byte lengths of client audio
BadAudio == -1                      \* stands for an audio string that is not
                                    \* valid base64
CallIds == {1, 2}                   \* call ids of the function_call items
Texts == {"a", "b"}                 \* end_vertex message texts
ArgTokens == {"{\"input\":\"hi\"", "}"}  \* fragments of the JSON argument text
Lines == {"empty", "progress", "malformed"} \cup Texts
NoCall == 0                         \* function_call = None
ErrorText == "Error executing flow"
EnvKeys == {"None", "", "dummy", "envkey"}
                                    \* what os.getenv("OPENAI_API_KEY") returns
OtherUpTypes == {"session.created", "response.done"}
                                    \* upstream event types with no branch of
                                    \* their own in forward_to_client
PassTypes == {"response.create", "conversation.item.create"}
                                    \* client message types with no branch of
                                    \* their own in forward_to_openai
DefaultVoice == "JBFqnCBsd6RMkjVDRZzb"  \* elevenlabs_voice at import (49)
Voices == {"v1", "v2"}              \* voice ids a client asks for
ThisUser == "user"                  \* the key of this session's user
OtherUser == "other"                \* the key of another session's user

\* Strings the chunker handles are sequences of one-character strings;
\* "emdash" stands for the one character U+2014.
splitters == {".", ",", "?", "!", ";", ":", "emdash", "-", "(", ")", "[", "]",
              "}", " "}
Hello == <<"H", "e", "l", "l", "o">>
World == <<" ", "w", "o", "r", "l", "d">>
Partial == <<"p", "a", "r", "t", "i", "a", "l">>
Fragments == {<<>>, Hello, <<",">>, World, <<".">>, Partial, <<"H", "i", ",">>}

VARIABLES
  barge_in_enabled,   \* module flag, line 54
  client_open,        \* client websocket still connected
  up_open,            \* upstream (OpenAI) websocket still open
  up_sent,            \* messages forward_to_openai and the VAD monitor
                      \* wrote to the upstream socket, in order
  client_sent,        \* messages forward_to_client wrote to the client
                      \* socket, in order
  cl_read,            \* history: the client messages forward_to_openai
                      \* has taken, in order
  n_up, n_cl,         \* events delivered so far by upstream / client
  n_calls,            \* function_call items the upstream added so far
  n_lines,            \* lines the executor's progress streams yielded so far
  h_pc,               \* flow_as_tool_websocket: "lookup" | "desc" |
                      \* "connect" | "streaming" | "returned" | "raised"
  fo_pc,              \* forward_to_openai: "none" | "recv" | "done"
  fc_pc,              \* forward_to_client: "none" | "recv" | "resend" |
                      \* "done"
  bot_speaking_flag,  \* bot_speaking_flag[0]
  turn,               \* history: number of output items added so far
  item_active,        \* history: the current item was added and neither
                      \* done nor cancelled by a barge-in since
  vad_pc,             \* process_vad_audio: "off" | "get" | "cancel" |
                      \* "crashed"
  vad_queue,          \* vad_queue: decoded byte lengths of the queued
                      \* chunks, BadAudio for one that does not decode
  vad_audio_buffer,   \* len(vad_audio_buffer)
  has_speech,         \* has_speech of the current pass
  cancel_turn,        \* history: turn in which the pending cancel was issued
  cancelled,          \* history: the text turns during which a
                      \* response.cancel was sent
  function_call,      \* pending call id or NoCall
  function_call_args, \* accumulated argument fragments
  tasks,              \* handle_function_call tasks, in creation order
  text_delta_queue,   \* text_delta_queue: fragments and None sentinels
  text_delta_task,    \* text_delta_task: index of its bridge, 0 for None
  text_turn,          \* history: number of response.text.done events + 1
  elevenlabs_client,  \* module global (51): "None", or the key the client
                      \* was created from ("unkeyed" for api_key=None)
  use_elevenlabs,     \* module global (48)
  elevenlabs_voice,   \* module global (49)
  elevenlabs_key,     \* module global (52): "None" or a key
  own_config,         \* history: enabled and voice_id of this session's last
                      \* elevenlabs.config, the import values before it
  other_pc,           \* another session's get_or_create_elevenlabs_client:
                      \* "idle" | "lookup" | "done"
  buffer,             \* sync_text_chunker: buffer (191)
  chunks,             \* history: the chunks the chunker yielded, in order
  ck_pc,              \* sync_text_chunker: "loop" | "done"
  consumed,           \* history: what the chunker took from its queue
  bridges,            \* process_text_deltas invocations, in creation order
  ws_pc,              \* position of flow_audio_websocket
  pe_pc,              \* position of its process_events task, "none" before 668
  inbox,              \* what the /ws client has sent and the handler not read
  event_queue,        \* event_queue (610)
  ws_end,             \* history: what ended the receive loop
  shutdown,           \* history: how often each shutdown step (691-694) ran
  openai_key,         \* openai_key of flow_as_tool_websocket: "unbound"
                      \* before 229 assigns it, "None" for None
  close_code,         \* history: the code of the first close() the /ws
                      \* handler called, 0 before it
  ws_flow,            \* history: what the flow lookup of 594-609 found
  resampled           \* the last call of resample_24k_to_16k: whether one
                      \* was made, the length of its argument, whether it
                      \* raised, and the length of the bytes it returned

cfgVars == <<barge_in_enabled>>
sockVars == <<client_open, up_open>>
logVars == <<up_sent, client_sent>>
envVars == <<n_up, n_cl, n_calls, n_lines>>
pcVars == <<h_pc, fo_pc, fc_pc>>
spkVars == <<bot_speaking_flag, turn, item_active>>
vadVars == <<vad_pc, vad_queue, vad_audio_buffer, has_speech, cancel_turn,
            cancelled>>
toolVars == <<function_call, function_call_args, tasks>>
wsVars == <<ws_pc, pe_pc, inbox, event_queue, ws_end, shutdown>>
ckVars == <<buffer, chunks, ck_pc, consumed>>
globVars == <<use_elevenlabs, elevenlabs_voice, elevenlabs_key, own_config,
              other_pc>>
ttsVars == <<text_delta_queue, text_delta_task, text_turn, elevenlabs_client,
             bridges>>

vars == <<cfgVars, openai_key, resampled, close_code, ws_flow, cl_read, ckVars, globVars, wsVars, sockVars, logVars, envVars, pcVars, spkVars, vadVars,
          toolVars, ttsVars>>

\* ---------------------------------------------------------------- helpers
\* A message on a socket: its type, the call id or sequence number it carries,
\* its text and who wrote it.
Msg(t, id, body, src) == [type |-> t, id |-> id, body |-> body, src |-> src]

\* An upstream event as forwarded to the client: seq is its position in the
\* order forward_to_client received the events.
Event(t, id, body, seq) ==
  [type |-> t, id |-> id, body |-> body, src |-> "upstream", seq |-> seq]

RECURSIVE CountType(_, _)
CountType(s, t) ==
  IF s = <<>> THEN 0
  ELSE (IF Head(s).type = t THEN 1 ELSE 0) + CountType(Tail(s), t)

NumCancels(s) == CountType(s, "response.cancel")

SetMin(S) == CHOOSE x \in S : \A y \in S : x <= y

\* ------------------------------------------------------------------- Init
\* What the handler's locals, the module globals and the other endpoint
\* are before and after the upstream connection is made.
InitRest ==
  /\ barge_in_enabled \in BOOLEAN
  /\ client_open = TRUE
  /\ up_sent = <<>>
  /\ client_sent = <<>>
  /\ cl_read = <<>>
  /\ n_up = 0
  /\ n_cl = 0
  /\ n_calls = 0
  /\ n_lines = 0
  /\ bot_speaking_flag = FALSE
  /\ turn = 0
  /\ item_active = FALSE
  /\ vad_pc = IF barge_in_enabled THEN "get" ELSE "off"
  /\ vad_queue = <<>>
  /\ vad_audio_buffer = 0
  /\ has_speech = FALSE
  /\ cancel_turn = 0
  /\ cancelled = {}
  /\ function_call = NoCall
  /\ function_call_args = <<>>
  /\ tasks = <<>>
  /\ text_delta_queue = <<>>
  /\ text_delta_task = 0
  /\ text_turn = 1
  /\ elevenlabs_client = "None"
  /\ use_elevenlabs = FALSE
  /\ elevenlabs_voice = DefaultVoice
  /\ elevenlabs_key = "None"
  /\ own_config = [enabled |-> FALSE, voice |-> DefaultVoice]
  /\ other_pc = "idle"
  /\ buffer = <<>>
  /\ chunks = <<>>
  /\ ck_pc = "loop"
  /\ consumed = <<>>
  /\ bridges = <<>>
  /\ ws_pc = "setup"
  /\ pe_pc = "none"
  /\ inbox = <<>>
  /\ event_queue = <<>>
  /\ ws_end = "none"
  /\ shutdown = [sentinel |-> 0, awaited |-> 0, closed |-> 0]
  /\ close_code = 0
  /\ ws_flow = "none"
  /\ resampled = [called |-> FALSE, arg |-> 0, raised |-> FALSE, len |-> 0]

\* The session right after session.update was sent (line 293) and the
\* tasks of lines 574-580 were created.
Init ==
  /\ InitRest
  /\ openai_key = "key"
  /\ up_open = TRUE
  /\ h_pc = "streaming"
  /\ fo_pc = "recv"
  /\ fc_pc = "recv"
\* ----------------------------------------------------------------- frames
\* What each process leaves alone whatever it does.
EnvFrame == <<cfgVars, openai_key, resampled, close_code, ws_flow, cl_read, ckVars, globVars, wsVars, logVars, envVars, pcVars, spkVars, vadVars, toolVars,
              ttsVars>>
PumpFrame == <<cfgVars, openai_key, resampled, close_code, ws_flow, ckVars, globVars, wsVars, sockVars, client_sent, n_up, n_calls, n_lines, h_pc, fc_pc,
               spkVars, vad_pc, vad_audio_buffer, has_speech, cancel_turn, cancelled,
               toolVars, ttsVars>>
FwdFrame == <<cfgVars, openai_key, resampled, close_code, ws_flow, cl_read, ckVars, globVars, wsVars, sockVars, up_sent, n_cl, h_pc, fo_pc, vadVars>>
VadFrame == <<cfgVars, openai_key, resampled, close_code, ws_flow, cl_read, ckVars, globVars, wsVars, sockVars, client_sent, envVars, pcVars, turn, toolVars,
              ttsVars>>
ToolFrame == <<cfgVars, openai_key, resampled, close_code, ws_flow, cl_read, ckVars, globVars, wsVars, sockVars, logVars, envVars, pcVars, spkVars, vadVars,
               function_call, function_call_args, ttsVars>>
BridgeFrame == <<cfgVars, openai_key, resampled, close_code, ws_flow, cl_read, ckVars, globVars, wsVars, sockVars, logVars, envVars, pcVars, spkVars, vadVars,
                 toolVars, text_delta_task, text_turn>>

\* ------------------------------------------------------------ environment
\* The client closes its socket.
ClientDisconnect ==
  /\ client_open
  /\ client_open' = FALSE
  /\ UNCHANGED <<up_open, EnvFrame>>

\* The upstream service closes its socket.
UpstreamClose ==
  /\ up_open
  /\ up_open' = FALSE
  /\ UNCHANGED <<client_open, EnvFrame>>

\* ------------------------------- flow_as_tool_websocket, setup (225-293)
SetupFrame == <<cfgVars, close_code, ws_flow, resampled, cl_read, ckVars,
                globVars, wsVars, client_open, up_sent, envVars, spkVars,
                vadVars, toolVars, ttsVars>>

\* The error event of 235-242: its code and its key_name.
OpenAiKeyMissing ==
  Msg("error", 0, <<"api_key_missing", "OPENAI_API_KEY">>, "setup")

\* Whether a value passes for a key at 234.
Usable(key) == key \notin {"None", "", "dummy"}

\* The key lookup (228-247).  The store returns the key; or it raises
\* InvalidToken or ValueError and the environment is asked (232-233), where
\* a missing or dummy value sends the error event and returns (234-243),
\* the send raising on a closed client socket; or it raises something
\* else, which is logged (244-247) and leaves openai_key unbound.
SetupLookup(outcome, env) ==
  /\ h_pc = "lookup"
  /\ CASE outcome = "found" ->
            /\ openai_key' = "key"
            /\ h_pc' = "desc"
            /\ client_sent' = client_sent
       [] outcome \in {"InvalidToken", "ValueError"} ->
            /\ openai_key' = env
            /\ IF Usable(env)
                 THEN h_pc' = "desc" /\ client_sent' = client_sent
                 ELSE IF client_open
                   THEN /\ h_pc' = "returned"
                        /\ client_sent' = Append(client_sent, OpenAiKeyMissing)
                   ELSE h_pc' = "raised" /\ client_sent' = client_sent
       [] OTHER ->
            /\ openai_key' = openai_key
            /\ h_pc' = "desc"
            /\ client_sent' = client_sent
  /\ UNCHANGED <<SetupFrame, up_open, fo_pc, fc_pc>>

\* The flow's description is read (249-264); when that raises, an error is
\* sent to the client and the handler returns.
SetupDesc(ok) ==
  /\ h_pc = "desc"
  /\ IF ok
       THEN h_pc' = "connect" /\ client_sent' = client_sent
       ELSE IF client_open
         THEN /\ h_pc' = "returned"
              /\ client_sent' = Append(client_sent,
                                       Msg("error", 0, <<"flow">>, "setup"))
         ELSE h_pc' = "raised" /\ client_sent' = client_sent
  /\ UNCHANGED <<SetupFrame, openai_key, up_open, fo_pc, fc_pc>>

\* The headers are built from openai_key (267-270), which raises
\* UnboundLocalError when no branch assigned it; then the upstream
\* connection is opened (272), which may fail, the first session.update is
\* sent (293) and the two pumps are started (577-580).
SetupConnect(ok) ==
  /\ h_pc = "connect"
  /\ IF openai_key # "unbound" /\ ok
       THEN /\ up_open' = TRUE
            /\ h_pc' = "streaming"
            /\ fo_pc' = "recv"
            /\ fc_pc' = "recv"
       ELSE /\ h_pc' = "raised"
            /\ UNCHANGED <<up_open, fo_pc, fc_pc>>
  /\ UNCHANGED <<SetupFrame, openai_key, client_sent>>

\* ------------------------------------------- forward_to_openai (403-449)
\* One input_audio_buffer.append message of `size` decoded bytes.  Empty
\* audio is skipped (414-415).  Otherwise the audio is re-encoded and sent
\* (416), queued for the VAD (417) and, the message not being an
\* elevenlabs.config, sent once more verbatim by the else branch (446-447).
\* A send on the closed upstream socket raises ConnectionClosed, which ends
\* the pump (448-449).
PumpAudio(size) ==
  /\ fo_pc = "recv"
  /\ client_open
  /\ n_cl < MaxClientMsgs
  /\ n_cl' = n_cl + 1
  /\ cl_read' = Append(cl_read,
       Msg("input_audio_buffer.append", n_cl + 1, <<size>>, "client"))
  /\ IF size = 0
       THEN UNCHANGED <<up_sent, vad_queue, fo_pc>>
       ELSE IF ~up_open
         THEN fo_pc' = "done" /\ UNCHANGED <<up_sent, vad_queue>>
         ELSE /\ up_sent' = up_sent \o
                   << Msg("input_audio_buffer.append", n_cl + 1, <<size>>,
                          "reencoded"),
                      Msg("input_audio_buffer.append", n_cl + 1, <<size>>,
                          "verbatim") >>
              /\ vad_queue' = Append(vad_queue, size)
              /\ fo_pc' = fo_pc
  /\ UNCHANGED PumpFrame

\* PumpOther sending the text twice.
M_PumpOtherTwice(type) ==
  /\ fo_pc = "recv"
  /\ client_open
  /\ n_cl < MaxClientMsgs
  /\ n_cl' = n_cl + 1
  /\ cl_read' = Append(cl_read, Msg(type, n_cl + 1, <<>>, "client"))
  /\ IF up_open
       THEN /\ up_sent' = up_sent \o << Msg(type, n_cl + 1, <<>>, "verbatim"),
                                        Msg(type, n_cl + 1, <<>>, "verbatim") >>
            /\ fo_pc' = fo_pc
       ELSE /\ fo_pc' = "done"
            /\ up_sent' = up_sent
  /\ UNCHANGED <<PumpFrame, vad_queue>>

\* One message of any other type (446-447): the text received is sent as it
\* is.
PumpOther(type) ==
  /\ fo_pc = "recv"
  /\ client_open
  /\ n_cl < MaxClientMsgs
  /\ n_cl' = n_cl + 1
  /\ cl_read' = Append(cl_read, Msg(type, n_cl + 1, <<>>, "client"))
  /\ IF up_open
       THEN /\ up_sent' = Append(up_sent, Msg(type, n_cl + 1, <<>>, "verbatim"))
            /\ fo_pc' = fo_pc
       ELSE /\ fo_pc' = "done"
            /\ up_sent' = up_sent
  /\ UNCHANGED <<PumpFrame, vad_queue>>

\* The session.update of 424-445; its modalities are the literal of 427.
SessionUpdate(n) == Msg("session.update", n, <<"text">>, "config")

\* One elevenlabs.config message (418-445): the module globals are assigned
\* (420-421) and a session.update is sent; the else branch of 446 is not
\* taken.
PumpConfig(enabled, voice) ==
  /\ fo_pc = "recv"
  /\ client_open
  /\ n_cl < MaxClientMsgs
  /\ n_cl' = n_cl + 1
  /\ use_elevenlabs' = enabled
  /\ elevenlabs_voice' = voice
  /\ own_config' = [enabled |-> enabled, voice |-> voice]
  /\ cl_read' = Append(cl_read,
       Msg("elevenlabs.config", n_cl + 1, <<enabled, voice>>, "client"))
  /\ IF up_open
       THEN /\ up_sent' = Append(up_sent, SessionUpdate(n_cl + 1))
            /\ fo_pc' = fo_pc
       ELSE /\ fo_pc' = "done"
            /\ up_sent' = up_sent
  /\ UNCHANGED <<cfgVars, openai_key, resampled, close_code, ws_flow, ckVars, wsVars, sockVars, client_sent, n_up, n_calls,
                 n_lines, h_pc, fc_pc, spkVars, vadVars, toolVars, ttsVars,
                 elevenlabs_key, other_pc>>

\* receive_text raises WebSocketDisconnect once the client is gone (448).
PumpClientGone ==
  /\ fo_pc = "recv"
  /\ ~client_open
  /\ fo_pc' = "done"
  /\ UNCHANGED <<PumpFrame, cl_read, up_sent, n_cl, vad_queue>>

\* ------------------------------------------- forward_to_client (451-511)
\* The head of the loop: an event arrives on the open upstream socket (458)
\* and is forwarded to the client (463) before its branch runs.
\* FwdRecv writing the event ahead of what the socket already carries.
M_FwdRecvAhead(type, id, body) ==
  /\ fc_pc = "recv"
  /\ up_open
  /\ client_open
  /\ n_up < MaxUpEvents
  /\ n_up' = n_up + 1
  /\ fc_pc' = fc_pc
  /\ client_sent' = <<Event(type, id, body, n_up + 1)>> \o client_sent
  /\ UNCHANGED FwdFrame

FwdRecv(type, id, body) ==
  /\ fc_pc = "recv"
  /\ up_open
  /\ client_open
  /\ n_up < MaxUpEvents
  /\ n_up' = n_up + 1
  /\ fc_pc' = fc_pc
  /\ client_sent' = Append(client_sent, Event(type, id, body, n_up + 1))
  /\ UNCHANGED FwdFrame

\* response.output_item.added (474-480) for a message item.
FwdItemAdded ==
  /\ FwdRecv("response.output_item.added", NoCall, <<>>)
  /\ bot_speaking_flag' = TRUE
  /\ turn' = turn + 1
  /\ item_active' = TRUE
  /\ UNCHANGED <<n_calls, n_lines, toolVars, ttsVars>>

\* response.output_item.added (474-480) for a function_call item; the
\* upstream numbers its calls, so the item carries the next unused call id.
FwdCallAdded(ids) ==
  /\ n_calls + 1 \in ids
  /\ FwdRecv("response.output_item.added", n_calls + 1, <<>>)
  /\ n_calls' = n_calls + 1
  /\ n_lines' = n_lines
  /\ bot_speaking_flag' = TRUE
  /\ turn' = turn + 1
  /\ item_active' = TRUE
  /\ function_call' = n_calls + 1
  /\ function_call_args' = <<>>
  /\ UNCHANGED <<tasks, ttsVars>>

\* response.output_item.done (481-483).
FwdItemDone ==
  /\ FwdRecv("response.output_item.done", 0, <<>>)
  /\ bot_speaking_flag' = FALSE
  /\ item_active' = FALSE
  /\ UNCHANGED <<n_calls, n_lines, turn, toolVars, ttsVars>>

\* response.function_call_arguments.delta (484-485).
FwdArgsDelta(tok) ==
  /\ FwdRecv("response.function_call_arguments.delta", 0, <<tok>>)
  /\ function_call_args' = Append(function_call_args, tok)
  /\ UNCHANGED <<n_calls, n_lines, spkVars, function_call, tasks, ttsVars>>

\* A new handle_function_call task (488-499), not yet run.  Besides the
\* arguments and the result string the record keeps what the task did:
\* invoked (calls of build_flow), input (the input_value passed),
\* events (non-empty lines read), fwd (lines forwarded to the
\* client as flow.build.progress) and sent (messages written upstream).
NewTask(call, args) ==
  [pc |-> "start", call |-> call, args |-> args, invoked |-> 0,
   input |-> "", events |-> 0, fwd |-> <<>>,
   result |-> <<>>, sent |-> <<>>]

\* Dispatch keeping the pending call and its buffer after the dispatch.
M_DispatchKeep ==
  IF function_call # NoCall
    THEN /\ tasks' = Append(tasks, NewTask(function_call, function_call_args))
         /\ UNCHANGED <<function_call, function_call_args>>
    ELSE UNCHANGED toolVars

\* What the done branch does with the pending call (487-501).
Dispatch ==
  IF function_call # NoCall
    THEN /\ tasks' = Append(tasks, NewTask(function_call, function_call_args))
         /\ function_call' = NoCall
         /\ function_call_args' = <<>>
    ELSE UNCHANGED toolVars

\* response.function_call_arguments.done (486-501).
FwdArgsDone ==
  /\ FwdRecv("response.function_call_arguments.done", 0, <<>>)
  /\ Dispatch
  /\ UNCHANGED <<n_calls, n_lines, spkVars, ttsVars>>

\* The upstream's argument events name the call they belong to (call_id),
\* which the handler does not read.  A call is open from its
\* response.output_item.added to its response.function_call_arguments.done.
CallOpen(c) ==
  /\ c \in 1..n_calls
  /\ \A i \in 1..Len(client_sent) :
       ~(/\ client_sent[i].type = "response.function_call_arguments.done"
         /\ client_sent[i].id = c)

\* response.function_call_arguments.delta of an open call (484-485).
FwdArgsDeltaOf(c, tok) ==
  /\ CallOpen(c)
  /\ FwdRecv("response.function_call_arguments.delta", c, <<tok>>)
  /\ function_call_args' = Append(function_call_args, tok)
  /\ UNCHANGED <<n_calls, n_lines, spkVars, function_call, tasks, ttsVars>>

\* response.function_call_arguments.done of an open call (486-501).
FwdArgsDoneOf(c) ==
  /\ CallOpen(c)
  /\ FwdRecv("response.function_call_arguments.done", c, <<>>)
  /\ Dispatch
  /\ UNCHANGED <<n_calls, n_lines, spkVars, ttsVars>>

\* A new process_text_deltas task (469), not yet run: ptd is the task's
\* position, xfer that of its transfer_text_deltas task, sync_q its
\* synchronous queue, th that of its worker thread, got what the thread's
\* chunker has taken from sync_q, frames the audio frames it delivered,
\* pending the numbers of the frames handed to the event loop and not sent
\* yet.
NewBridge ==
  [ptd |-> "start", xfer |-> "none", sync_q |-> <<>>, th |-> "none",
   got |-> <<>>, frames |-> 0, pending |-> {}, turn |-> text_turn]

Fragment == [eos |-> FALSE, turn |-> text_turn]
Sentinel == [eos |-> TRUE, turn |-> text_turn]

\* response.text.delta (465-469): the fragment is queued and a bridge is
\* started unless text_delta_task is set.
FwdTextDelta ==
  /\ n_up < MaxTextEvents
  /\ FwdRecv("response.text.delta", 0, <<>>)
  /\ text_delta_queue' = Append(text_delta_queue, Fragment)
  /\ IF text_delta_task = 0
       THEN /\ bridges' = Append(bridges, NewBridge)
            /\ text_delta_task' = Len(bridges) + 1
       ELSE UNCHANGED <<bridges, text_delta_task>>
  /\ UNCHANGED <<n_calls, n_lines, spkVars, toolVars, text_turn, elevenlabs_client>>

\* response.text.done (470-473): the sentinel is queued and
\* text_delta_task is reset.
FwdTextDone ==
  /\ n_up < MaxTextEvents
  /\ FwdRecv("response.text.done", 0, <<>>)
  /\ text_delta_queue' = Append(text_delta_queue, Sentinel)
  /\ text_delta_task' = 0
  /\ text_turn' = text_turn + 1
  /\ UNCHANGED <<n_calls, n_lines, spkVars, toolVars, elevenlabs_client, bridges>>

\* response.audio.delta (502-504): the branch reads the delta into a local
\* and does nothing with it; the event has been forwarded at 463 already.
FwdAudioDelta ==
  /\ FwdRecv("response.audio.delta", 0, <<>>)
  /\ UNCHANGED <<n_calls, n_lines, spkVars, toolVars, ttsVars>>

\* An error event (505-506) is printed; it has been forwarded at 463.
FwdError ==
  /\ FwdRecv("error", 0, <<>>)
  /\ UNCHANGED <<n_calls, n_lines, spkVars, toolVars, ttsVars>>

\* An event of any other type is forwarded at 463 like every event and
\* then falls into the else branch (507-508), which suspends in a second
\* send of the same text.
FwdOther(type) ==
  /\ fc_pc = "recv"
  /\ up_open
  /\ client_open
  /\ n_up < MaxUpEvents
  /\ n_up' = n_up + 1
  /\ fc_pc' = "resend"
  /\ client_sent' = Append(client_sent, Event(type, 0, <<>>, n_up + 1))
  /\ UNCHANGED <<FwdFrame, n_calls, n_lines, spkVars, toolVars, ttsVars>>

\* The send of 508 runs: the event just received goes to the client once
\* more; on the closed client socket it raises and the demultiplexer ends
\* (510-511).
FwdResend ==
  /\ fc_pc = "resend"
  /\ LET sent == SelectSeq(client_sent, LAMBDA m : m.src = "upstream") IN
       IF client_open
         THEN /\ client_sent' = Append(client_sent, sent[Len(sent)])
              /\ fc_pc' = "recv"
         ELSE /\ client_sent' = client_sent
              /\ fc_pc' = "done"
  /\ UNCHANGED <<FwdFrame, n_up, n_calls, n_lines, spkVars, toolVars, ttsVars>>

\* The forward at 463 raises WebSocketDisconnect on the closed client
\* socket; the event is dropped and the demultiplexer ends (510-511).
FwdClientGone ==
  /\ fc_pc = "recv"
  /\ up_open
  /\ ~client_open
  /\ n_up < MaxUpEvents
  /\ n_up' = n_up + 1
  /\ fc_pc' = "done"
  /\ UNCHANGED <<FwdFrame, client_sent, n_calls, n_lines, spkVars, toolVars, ttsVars>>

\* recv raises ConnectionClosed once the upstream socket is closed (510).
FwdUpstreamGone ==
  /\ fc_pc = "recv"
  /\ ~up_open
  /\ fc_pc' = "done"
  /\ UNCHANGED <<FwdFrame, client_sent, n_up, n_calls, n_lines, spkVars, toolVars,
                 ttsVars>>

\* ----------------------------------------- handle_function_call (124-182)
\* json.loads on the accumulated text (136): the empty text stands for the
\* empty object, the two fragments in order are {"input":"hi"}, any other
\* concatenation is not JSON and raises.  input is args.get("input").
ParseArgs(args) ==
  IF args = <<>> THEN [ok |-> TRUE, input |-> "None"]
  ELSE IF args = <<"{\"input\":\"hi\"", "}">> THEN [ok |-> TRUE, input |-> "hi"]
  ELSE [ok |-> FALSE, input |-> ""]

\* The function_call_output item of 162-169 and 174-181.
FunctionOutput(call, text) ==
  Msg("function_call_output", call, text, "tool")

\* ExceptBlock without its send: the exception is logged and nothing is sent.
M_ExceptBlockSilent(t) == [t EXCEPT !.pc = "done"]

\* The task after the except block (172-182): the error output is sent
\* upstream; on the closed upstream socket that send raises as well and the
\* exception leaves the task.
ExceptBlock(t) ==
  IF up_open
    THEN [t EXCEPT !.pc = "done",
                   !.sent = Append(@, FunctionOutput(t.call, <<ErrorText>>))]
    ELSE [t EXCEPT !.pc = "crashed"]

\* The task starts: the arguments are parsed and build_flow is called
\* (134-145).
ToolStart(i) ==
  /\ i <= Len(tasks)
  /\ tasks[i].pc = "start"
  /\ LET p == ParseArgs(tasks[i].args)
     IN tasks' = [tasks EXCEPT ![i] =
          IF p.ok THEN [@ EXCEPT !.pc = "build", !.invoked = @ + 1,
                                 !.input = p.input]
                  ELSE ExceptBlock(@)]
  /\ UNCHANGED ToolFrame

\* build_flow returns a streaming response (140-145).
ToolBuildReturn(i) ==
  /\ i <= Len(tasks)
  /\ tasks[i].pc = "build"
  /\ tasks' = [tasks EXCEPT ![i].pc = "iter"]
  /\ UNCHANGED ToolFrame

\* build_flow raises, or the stream iterator raises, or a line is not JSON
\* (140, 147, 150).
ToolRaise(i) ==
  /\ i <= Len(tasks)
  /\ tasks[i].pc \in {"build", "iter"}
  /\ tasks' = [tasks EXCEPT ![i] = ExceptBlock(@)]
  /\ UNCHANGED ToolFrame

\* The task after one line of the progress stream (147-161).  An empty line
\* is skipped; any other line is forwarded to the client as
\* flow.build.progress, which raises on the closed client socket; an
\* end_vertex line adds its text to the result, and one without build_data
\* raises after it was forwarded.
AfterLine(t, line) ==
  IF line = "empty" THEN t
  ELSE IF ~client_open THEN ExceptBlock([t EXCEPT !.events = @ + 1])
  ELSE LET v == [t EXCEPT !.events = @ + 1, !.fwd = Append(@, line)] IN
       IF line = "malformed" THEN ExceptBlock(v)
       ELSE IF line = "progress" THEN v
       ELSE [v EXCEPT !.result = Append(@, line)]

ToolLine(i, line) ==
  /\ i <= Len(tasks)
  /\ tasks[i].pc = "iter"
  /\ n_lines < MaxLines
  /\ n_lines' = n_lines + 1
  /\ tasks' = [tasks EXCEPT ![i] = AfterLine(@, line)]
  /\ UNCHANGED <<cfgVars, openai_key, resampled, close_code, ws_flow, cl_read, ckVars, globVars, wsVars, sockVars, logVars, n_up, n_cl, n_calls,
                 pcVars, spkVars, vadVars, function_call, function_call_args,
                 ttsVars>>

\* AfterStream with the two sends swapped: response.create goes out first.
M_AfterStreamCreateFirst(t) ==
  IF up_open
    THEN [t EXCEPT !.pc = "create",
                   !.sent = Append(@, Msg("response.create", 0, <<>>, "tool"))]
    ELSE [t EXCEPT !.pc = "crashed"]

\* The task after the progress stream ended (162-170): function_call_output
\* is sent; on the closed upstream socket the send raises into the except
\* block.
AfterStream(t) ==
  IF up_open
    THEN [t EXCEPT !.pc = "create",
                   !.sent = Append(@, FunctionOutput(t.call, t.result))]
    ELSE ExceptBlock(t)

ToolStreamEnd(i) ==
  /\ i <= Len(tasks)
  /\ tasks[i].pc = "iter"
  /\ tasks' = [tasks EXCEPT ![i] = AfterStream(@)]
  /\ UNCHANGED ToolFrame

\* AfterOutput with the except block as a finally block: the error output
\* is sent after response.create as well.
M_AfterOutputResend(t) ==
  IF up_open
    THEN [t EXCEPT !.pc = "done",
                   !.sent = @ \o << Msg("response.create", 0, <<>>, "tool"),
                                    Msg("function_call_output", t.call,
                                        <<ErrorText>>, "tool") >>]
    ELSE [t EXCEPT !.pc = "crashed"]

\* The task after line 171: response.create is sent; on the closed upstream
\* socket the send raises into the except block.
AfterOutput(t) ==
  IF up_open
    THEN [t EXCEPT !.pc = "done",
                   !.sent = Append(@, Msg("response.create", 0, <<>>, "tool"))]
    ELSE ExceptBlock(t)

ToolCreate(i) ==
  /\ i <= Len(tasks)
  /\ tasks[i].pc = "create"
  /\ tasks' = [tasks EXCEPT ![i] = AfterOutput(@)]
  /\ UNCHANGED ToolFrame

\* ------------------------------ resample_24k_to_16k (voice_utils 19-31)
\* Audio is modelled by its length.  np.frombuffer with dtype int16 (24)
\* raises ValueError unless the buffer is a whole number of samples;
\* scipy's resample (26) returns num samples for an input that is not
\* empty and raises on an empty one; rint, astype and tobytes (28-29) keep
\* the number of samples.  The result is the number of bytes returned, or
\* -1 for an exception.
frombuffer(len) == IF len % BYTES_PER_SAMPLE = 0 THEN len \div BYTES_PER_SAMPLE
                   ELSE -1
resample(n, num) == IF n > 0 THEN num ELSE -1

\* resample_24k_to_16k without the call of resample.
M_resample_none(len) ==
  LET samples_24k == frombuffer(len) IN
    IF samples_24k < 0 THEN -1 ELSE samples_24k * BYTES_PER_SAMPLE

resample_24k_to_16k(len) ==
  LET samples_24k == frombuffer(len)
      samples_16k == IF samples_24k < 0 THEN -1
                     ELSE resample(samples_24k, ResampledSamples)
  IN IF samples_16k < 0 THEN -1 ELSE samples_16k * BYTES_PER_SAMPLE

\* One call of resample_24k_to_16k on a frame of len bytes.
Resample(len) ==
  /\ ~resampled.called
  /\ resampled' = LET out == resample_24k_to_16k(len) IN
       [called |-> TRUE, arg |-> len, raised |-> out < 0,
        len |-> IF out < 0 THEN 0 ELSE out]
  /\ UNCHANGED <<cfgVars, openai_key, close_code, ws_flow, cl_read, ckVars, globVars, wsVars,
                 sockVars, logVars, envVars, pcVars, spkVars, vadVars,
                 toolVars, ttsVars>>

\* ------------------------------------------- process_vad_audio (301-332)
\* The inner loop slicing a frame off whatever the accumulator holds.
RECURSIVE M_FramesPartial(_)
M_FramesPartial(len) ==
  IF len > 0
    THEN LET frame == IF len < BYTES_PER_24K_FRAME THEN len
                      ELSE BYTES_PER_24K_FRAME
         IN <<frame>> \o M_FramesPartial(len - frame)
    ELSE <<>>

\* The frames the inner loop (309-311) slices off an accumulator of len
\* bytes, by their lengths: while a whole frame is there, the first
\* BYTES_PER_24K_FRAME bytes are taken and deleted.
RECURSIVE Frames(_)
Frames(len) ==
  IF len >= BYTES_PER_24K_FRAME
    THEN LET frame == IF len < BYTES_PER_24K_FRAME THEN len
                      ELSE BYTES_PER_24K_FRAME
         IN <<frame>> \o Frames(len - frame)
    ELSE <<>>

RECURSIVE SumSeq(_)
SumSeq(s) == IF s = <<>> THEN 0 ELSE Head(s) + SumSeq(Tail(s))

\* One pass of the outer loop up to its first suspension: a chunk is taken
\* from the queue and appended to the accumulator, then whole frames are
\* sliced off and classified (the classifier's verdict, or its failure, is
\* an input).  The first speech frame seen while the speaking flag is set
\* sends response.cancel (320) and suspends in the send; on the closed
\* upstream socket the send raises, the handler at 323 logs it and the loop
\* goes on with the flag untouched.
VadPass ==
  /\ vad_pc = "get"
  /\ vad_queue # <<>>
  /\ Head(vad_queue) # BadAudio
  /\ LET total == vad_audio_buffer + Head(vad_queue)
         frames == Frames(total)
         n == Len(frames)
     IN \E cls \in [1..n -> {"silence", "speech", "error"}] :
          LET speech == {i \in 1..n : cls[i] = "speech"}
              fire == bot_speaking_flag /\ speech # {}
          IN /\ vad_queue' = Tail(vad_queue)
             /\ has_speech' = (speech # {})
             /\ IF fire /\ up_open
                  THEN /\ up_sent' = Append(up_sent,
                                       Msg("response.cancel", 0, <<>>, "vad"))
                       /\ vad_pc' = "cancel"
                       /\ cancel_turn' = turn
                       /\ cancelled' = cancelled \cup {text_turn}
                       /\ vad_audio_buffer' =
                            total - SumSeq(SubSeq(frames, 1, SetMin(speech)))
                  ELSE /\ vad_audio_buffer' = total - SumSeq(frames)
                       /\ UNCHANGED <<up_sent, vad_pc, cancel_turn, cancelled>>
  /\ UNCHANGED <<VadFrame, bot_speaking_flag, item_active>>

\* The chunk taken from the queue is not valid base64: b64decode (306)
\* raises outside the try block of 312-325, and the exception ends the
\* task.
VadDecodeError ==
  /\ vad_pc = "get"
  /\ vad_queue # <<>>
  /\ Head(vad_queue) = BadAudio
  /\ vad_queue' = Tail(vad_queue)
  /\ vad_pc' = "crashed"
  /\ UNCHANGED <<VadFrame, up_sent, vad_audio_buffer, has_speech, cancel_turn, cancelled,
                 bot_speaking_flag, item_active>>

\* The send of 320 returns: the flag is cleared (322) and the rest of the
\* pass runs with the flag clear, so it sends nothing more.
VadCancelReturn ==
  /\ vad_pc = "cancel"
  /\ bot_speaking_flag' = FALSE
  /\ item_active' = IF cancel_turn = turn THEN FALSE ELSE item_active
  /\ vad_audio_buffer' = vad_audio_buffer - SumSeq(Frames(vad_audio_buffer))
  /\ vad_pc' = "get"
  /\ UNCHANGED <<VadFrame, up_sent, vad_queue, has_speech, cancel_turn,
                 cancelled>>

\* ----------------------------------------- process_text_deltas (348-401)
\* The worker thread is started (372-401).
StartThread(b) == [b EXCEPT !.ptd = "done", !.th = "run"]

\* What get_or_create_elevenlabs_client and the other session's steps
\* leave alone besides the client, the key, the bridges and the logs.
KeyFrame == <<cfgVars, openai_key, resampled, close_code, ws_flow, cl_read, ckVars, wsVars, sockVars, envVars, pcVars, spkVars, vadVars,
              toolVars, text_delta_task, text_turn, text_delta_queue,
              use_elevenlabs, elevenlabs_voice, own_config>>

\* The task runs up to its first suspension: it schedules the transfer task
\* (362) and asks for the TTS client (366).  With the client at hand, or the
\* key at hand to create it from (571), get_or_create_elevenlabs_client
\* returns at once (546-547, 572) and the thread is started; otherwise the
\* task suspends in the key lookup (549).  The event loop starts tasks in
\* the order they were created (469).
BridgeStart(k) ==
  /\ k <= Len(bridges)
  /\ bridges[k].ptd = "start"
  /\ \A j \in 1..(k - 1) : bridges[j].ptd # "start"
  /\ elevenlabs_client' = IF elevenlabs_client # "None" THEN elevenlabs_client
                          ELSE elevenlabs_key
  /\ bridges' = [bridges EXCEPT ![k] =
       IF elevenlabs_client' # "None"
         THEN StartThread([@ EXCEPT !.xfer = "run"])
         ELSE [@ EXCEPT !.xfer = "run", !.ptd = "lookup"]]
  /\ UNCHANGED <<KeyFrame, logVars, elevenlabs_key, other_pc>>

\* Where a key comes from: the user's stored variable (549-554) or the
\* process environment (556).
KeySources == {"variable", "environment"}

\* The key lookup ends with a key: the key is stored in the module
\* global, the client is created from it (571) and the thread started.
BridgeKeyFound(k, src) ==
  /\ k <= Len(bridges)
  /\ bridges[k].ptd = "lookup"
  /\ elevenlabs_key' = IF src = "variable" THEN ThisUser ELSE "env"
  /\ elevenlabs_client' = elevenlabs_key'
  /\ bridges' = [bridges EXCEPT ![k] = StartThread(@)]
  /\ UNCHANGED <<KeyFrame, logVars, other_pc>>

\* The key lookup raises something else (567-570): it is logged and the
\* client is created from whatever the module's key is now (571).
BridgeLookupError(k) ==
  /\ k <= Len(bridges)
  /\ bridges[k].ptd = "lookup"
  /\ elevenlabs_client' = IF elevenlabs_key = "None" THEN "unkeyed"
                          ELSE elevenlabs_key
  /\ bridges' = [bridges EXCEPT ![k] = StartThread(@)]
  /\ UNCHANGED <<KeyFrame, logVars, elevenlabs_key, other_pc>>

\* The error event of 558-565: its code and its key_name.
KeyMissingError ==
  Msg("error", 0, <<"api_key_missing", "ELEVENLABS_API_KEY">>, "tts")

\* The key lookup ends without a key (555-566): the module's key is set to
\* the environment's None, the client is sent an error, which raises on the
\* closed socket, and the task ends without starting a thread (367-368);
\* its transfer task stays.
BridgeKeyMissing(k) ==
  /\ k <= Len(bridges)
  /\ bridges[k].ptd = "lookup"
  /\ elevenlabs_key' = "None"
  /\ bridges' = [bridges EXCEPT ![k].ptd = "done"]
  /\ client_sent' = IF client_open
                      THEN Append(client_sent, KeyMissingError)
                      ELSE client_sent
  /\ UNCHANGED <<KeyFrame, up_sent, elevenlabs_client, other_pc>>

\* ------------------------------- another session of the same process
\* The other session's client sends elevenlabs.config: its
\* forward_to_openai assigns the module globals (420-421).
OtherConfig(enabled, voice) ==
  /\ use_elevenlabs' = enabled
  /\ elevenlabs_voice' = voice
  /\ UNCHANGED <<cfgVars, openai_key, resampled, close_code, ws_flow, cl_read, ckVars, wsVars, sockVars, logVars, envVars, pcVars, spkVars,
                 vadVars, toolVars, ttsVars, elevenlabs_key, own_config,
                 other_pc>>

\* The other session's get_or_create_elevenlabs_client finds neither client
\* nor key and suspends in its lookup (546-549).
OtherLookupStart ==
  /\ other_pc = "idle"
  /\ elevenlabs_client = "None"
  /\ elevenlabs_key = "None"
  /\ other_pc' = "lookup"
  /\ UNCHANGED <<KeyFrame, logVars, bridges, elevenlabs_client,
                 elevenlabs_key>>

\* Its lookup returns its user's key: key and client are assigned
\* (549, 571).
OtherKeyFound ==
  /\ other_pc = "lookup"
  /\ other_pc' = "done"
  /\ elevenlabs_key' = OtherUser
  /\ elevenlabs_client' = OtherUser
  /\ UNCHANGED <<KeyFrame, logVars, bridges>>

\* transfer_text_deltas (354-359) moves one item to the synchronous queue
\* and ends on the sentinel.  get() does not suspend while the queue holds
\* an item, and the event loop runs what it scheduled first before what it
\* scheduled later, so a transfer task created earlier (362) takes what
\* is queued until its sentinel before a later one takes anything.
Transfer(k) ==
  /\ k <= Len(bridges)
  /\ bridges[k].xfer = "run"
  /\ \A j \in 1..(k - 1) : bridges[j].xfer # "run"
  /\ text_delta_queue # <<>>
  /\ text_delta_queue' = Tail(text_delta_queue)
  /\ bridges' = [bridges EXCEPT
       ![k].sync_q = Append(@, Head(text_delta_queue)),
       ![k].xfer = IF Head(text_delta_queue).eos THEN "done" ELSE "run"]
  /\ UNCHANGED <<BridgeFrame, elevenlabs_client>>

\* The worker thread's chunker takes one item from the synchronous queue
\* (194); the sentinel ends the chunk sequence (200-203).
ThreadGet(k) ==
  /\ k <= Len(bridges)
  /\ bridges[k].th = "run"
  /\ bridges[k].sync_q # <<>>
  /\ bridges' = [bridges EXCEPT
       ![k].sync_q = Tail(@),
       ![k].got = Append(@, Head(bridges[k].sync_q)),
       ![k].th = IF Head(bridges[k].sync_q).eos THEN "flush" ELSE "run"]
  /\ UNCHANGED <<BridgeFrame, text_delta_queue, elevenlabs_client>>

\* The number of the next frame the TTS stream of a bridge yields.
NextFrame(b) == b.frames + Cardinality(b.pending) + 1

\* ThreadAudio going on without waiting for the result of the send.
M_ThreadAudioNoWait(k) ==
  /\ k <= Len(bridges)
  /\ bridges[k].th \in {"run", "flush"}
  /\ bridges[k].got # <<>>
  /\ NextFrame(bridges[k]) <= MaxFrames
  /\ bridges' = [bridges EXCEPT
       ![k].pending = @ \cup {NextFrame(bridges[k])}]
  /\ UNCHANGED <<BridgeFrame, text_delta_queue, elevenlabs_client>>

\* ThreadAudio with the thread writing the frame to the client socket
\* itself.
M_ThreadAudioDirect(k) ==
  /\ k <= Len(bridges)
  /\ bridges[k].th \in {"run", "flush"}
  /\ bridges[k].got # <<>>
  /\ NextFrame(bridges[k]) <= MaxFrames
  /\ client_sent' = Append(client_sent, [type |-> "response.audio.delta",
                       id |-> k, body |-> <<NextFrame(bridges[k])>>,
                       src |-> "tts"])
  /\ bridges' = [bridges EXCEPT ![k].frames = @ + 1]
  /\ UNCHANGED <<cfgVars, openai_key, resampled, close_code, ws_flow, cl_read, ckVars, globVars, wsVars, sockVars,
                 up_sent, envVars, pcVars, spkVars, vadVars, toolVars,
                 text_delta_task, text_turn, text_delta_queue,
                 elevenlabs_client>>

\* The TTS call yields an audio frame: the thread hands the send to the
\* session's event loop and blocks on its result (387-393).
ThreadAudio(k) ==
  /\ k <= Len(bridges)
  /\ bridges[k].th \in {"run", "flush"}
  /\ bridges[k].got # <<>>
  /\ NextFrame(bridges[k]) <= MaxFrames
  /\ bridges' = [bridges EXCEPT
       ![k].pending = @ \cup {NextFrame(bridges[k])},
       ![k].th = IF @ = "run" THEN "send" ELSE "send_last"]
  /\ UNCHANGED <<BridgeFrame, text_delta_queue, elevenlabs_client>>

\* The response.audio.delta message of 391 for frame f of bridge k.
AudioFrame(k, f) == Msg("response.audio.delta", k, <<f>>, "tts")

\* LoopSendAudio with the event loop waiting for the worker thread before
\* it runs what the thread handed to it.
M_LoopSendAudioJoin(k) ==
  /\ k <= Len(bridges)
  /\ bridges[k].th \notin {"send", "send_last"}
  /\ \E f \in bridges[k].pending :
       /\ client_sent' = IF client_open
                           THEN Append(client_sent, AudioFrame(k, f))
                           ELSE client_sent
       /\ bridges' = [bridges EXCEPT ![k] =
            [@ EXCEPT !.frames = @ + 1, !.pending = @ \ {f}]]
  /\ UNCHANGED <<cfgVars, openai_key, resampled, close_code, ws_flow, cl_read, ckVars, globVars, wsVars, sockVars,
                 up_sent, envVars, pcVars, spkVars, vadVars, toolVars,
                 text_delta_task, text_turn, text_delta_queue,
                 elevenlabs_client>>

\* The event loop runs a send handed to it (391): the frame goes to the
\* client and the thread waiting for it resumes; on the closed client
\* socket the send raises, the thread gets the exception from result() and
\* ends (394-399).
LoopSendAudio(k) ==
  /\ k <= Len(bridges)
  /\ \E f \in bridges[k].pending :
       IF client_open
         THEN /\ client_sent' = Append(client_sent, AudioFrame(k, f))
              /\ bridges' = [bridges EXCEPT ![k] =
                   [@ EXCEPT !.frames = @ + 1,
                             !.pending = @ \ {f},
                             !.th = CASE @ = "send" -> "run"
                                      [] @ = "send_last" -> "flush"
                                      [] OTHER -> @]]
         ELSE /\ client_sent' = client_sent
              /\ bridges' = [bridges EXCEPT ![k] =
                   [@ EXCEPT !.th = "done", !.pending = {}]]
  /\ UNCHANGED <<cfgVars, openai_key, resampled, close_code, ws_flow, cl_read, ckVars, globVars, wsVars, sockVars,
                 up_sent, envVars, pcVars, spkVars, vadVars, toolVars,
                 text_delta_task, text_turn, text_delta_queue,
                 elevenlabs_client>>

\* The audio stream ends after the chunk sequence has ended, and the thread
\* ends (387, 398-399).
ThreadEnd(k) ==
  /\ k <= Len(bridges)
  /\ bridges[k].th = "flush"
  /\ bridges' = [bridges EXCEPT ![k].th = "done"]
  /\ UNCHANGED <<BridgeFrame, text_delta_queue, elevenlabs_client>>

\* ThreadTtsError with the exception leaving the thread and ending the
\* upstream-to-client pump.
M_ThreadTtsErrorFatal(k) ==
  /\ k <= Len(bridges)
  /\ bridges[k].th \in {"run", "flush"}
  /\ bridges' = [bridges EXCEPT ![k].th = "done"]
  /\ fc_pc' = "done"
  /\ UNCHANGED <<cfgVars, openai_key, resampled, close_code, ws_flow, cl_read, ckVars, globVars, wsVars,
                 sockVars, logVars, envVars, h_pc, fo_pc, spkVars, vadVars,
                 toolVars, text_delta_queue, text_delta_task, text_turn,
                 elevenlabs_client>>

\* The TTS call raises; the thread logs it and ends (394-399).
ThreadTtsError(k) ==
  /\ k <= Len(bridges)
  /\ bridges[k].th \in {"run", "flush"}
  /\ bridges' = [bridges EXCEPT ![k].th = "done"]
  /\ UNCHANGED <<BridgeFrame, text_delta_queue, elevenlabs_client>>

\* ------------------------------------------- sync_text_chunker (186-213)
\* text_chunker_with_timeout (80-112) runs the same steps on an async
\* iterator.
CkFrame == <<cfgVars, openai_key, resampled, close_code, ws_flow, cl_read, globVars, wsVars, sockVars, logVars, envVars, pcVars,
             spkVars, vadVars, toolVars, ttsVars>>

Item(kind, text) == [kind |-> kind, text |-> text]

\* The queue yields a text fragment (204-211).
ChunkFragment(text) ==
  /\ ck_pc = "loop"
  /\ Len(consumed) < MaxInputs
  /\ consumed' = Append(consumed, Item("text", text))
  /\ IF buffer # <<>> /\ buffer[Len(buffer)] \in splitters
       THEN /\ chunks' = Append(chunks, buffer \o <<" ">>)
            /\ buffer' = text
       ELSE IF text # <<>> /\ text[1] \in splitters
         THEN /\ chunks' = Append(chunks, buffer \o <<text[1], " ">>)
              /\ buffer' = Tail(text)
         ELSE /\ chunks' = chunks
              /\ buffer' = buffer \o text
  /\ UNCHANGED <<CkFrame, ck_pc>>

\* ChunkTimeout yielding the buffer without clearing it.
M_ChunkTimeoutKeep ==
  /\ ck_pc = "loop"
  /\ Len(consumed) < MaxInputs
  /\ consumed' = Append(consumed, Item("timeout", <<>>))
  /\ chunks' = IF buffer # <<>> THEN Append(chunks, buffer \o <<" ">>)
                ELSE chunks
  /\ UNCHANGED <<CkFrame, ck_pc, buffer>>

\* Nothing arrives within the timeout (195-199).
ChunkTimeout ==
  /\ ck_pc = "loop"
  /\ Len(consumed) < MaxInputs
  /\ consumed' = Append(consumed, Item("timeout", <<>>))
  /\ IF buffer # <<>>
       THEN /\ chunks' = Append(chunks, buffer \o <<" ">>)
            /\ buffer' = <<>>
       ELSE UNCHANGED <<chunks, buffer>>
  /\ UNCHANGED <<CkFrame, ck_pc>>

\* The queue yields None (200-203): the buffer is yielded and the loop
\* left; the statement after the loop (212-213) yields what the buffer
\* still holds.
ChunkSentinel ==
  /\ ck_pc = "loop"
  /\ consumed' = Append(consumed, Item("None", <<>>))
  /\ ck_pc' = "done"
  /\ chunks' = IF buffer # <<>>
                 THEN chunks \o <<buffer \o <<" ">>, buffer \o <<" ">>>>
                 ELSE chunks
  /\ UNCHANGED <<CkFrame, buffer>>

\* ------------------------------------- flow_as_tool_websocket (574-580)
\* gather returns once both forward_to_openai and forward_to_client have
\* returned (577-580); leaving the async with block closes the upstream
\* socket (272).
HandlerReturn ==
  /\ h_pc = "streaming"
  /\ fo_pc = "done"
  /\ fc_pc = "done"
  /\ h_pc' = "returned"
  /\ up_open' = FALSE
  /\ UNCHANGED <<cfgVars, openai_key, resampled, close_code, ws_flow, cl_read, ckVars, globVars, wsVars, client_open, logVars, envVars, fo_pc, fc_pc,
                 spkVars, vadVars, toolVars, ttsVars>>

\* ----------------------------------- flow_audio_websocket (583-697)
WsRest == <<cfgVars, openai_key, resampled, cl_read, ckVars, globVars, up_open, up_sent, n_up, n_calls, n_lines, h_pc, fo_pc, fc_pc,
             spkVars, vadVars, toolVars, ttsVars>>
WsFrame == <<WsRest, close_code, ws_flow>>

\* What a client sends on /ws/{flow_id}: an event for the flow, the
\* end_stream control message, or text receive_json or message.get fails on.
WsMessages == {"event", "end_stream", "garbage"}

WsClientSend(m) ==
  /\ client_open
  /\ n_cl < MaxClientMsgs
  /\ n_cl' = n_cl + 1
  /\ inbox' = Append(inbox, m)
  /\ UNCHANGED <<WsFrame, client_open, client_sent, ws_pc, pe_pc,
                 event_queue, ws_end, shutdown>>

\* The client disconnects: the handler's next receive after the messages
\* already sent raises WebSocketDisconnect.
WsClientDisconnect ==
  /\ client_open
  /\ client_open' = FALSE
  /\ inbox' = Append(inbox, "disconnect")
  /\ UNCHANGED <<WsFrame, client_sent, n_cl, ws_pc, pe_pc, event_queue,
                 ws_end, shutdown>>

\* WsSetup starting process_events whatever the flow's nodes are.
M_WsSetupNoCheck(outcome) ==
  /\ ws_pc = "setup"
  /\ ws_flow' = outcome
  /\ ws_pc' = IF outcome # "error" THEN "recv" ELSE "finally"
  /\ pe_pc' = IF outcome # "error" THEN "get" ELSE pe_pc
  /\ UNCHANGED <<WsRest, close_code, shutdown, client_open, client_sent, n_cl,
                 inbox, event_queue, ws_end>>

\* Lines 594-668.  "ok": the flow has a ChatInput node and process_events
\* is started (668).  "no_chat_input": the socket is closed with 4004 and
\* the handler returns through the finally block (607-609).  "error": the
\* lookup raises (595-600) and 686 catches it.
WsSetup(outcome) ==
  /\ ws_pc = "setup"
  /\ ws_flow' = outcome
  /\ ws_pc' = IF outcome = "ok" THEN "recv" ELSE "finally"
  /\ pe_pc' = IF outcome = "ok" THEN "get" ELSE pe_pc
  /\ shutdown' = IF outcome = "no_chat_input"
                   THEN [shutdown EXCEPT !.closed = @ + 1] ELSE shutdown
  /\ close_code' = IF outcome = "no_chat_input" THEN NoChatInputCode
                   ELSE close_code
  /\ client_open' = IF outcome = "no_chat_input" THEN FALSE ELSE client_open
  /\ UNCHANGED <<WsRest, client_sent, n_cl, inbox, event_queue, ws_end>>

\* WsRecv reading on after end_stream.
M_WsRecvPastEnd ==
  /\ ws_pc = "recv"
  /\ inbox # <<>>
  /\ inbox' = Tail(inbox)
  /\ LET m == Head(inbox) IN
       /\ event_queue' = IF m = "event" THEN Append(event_queue, m)
                         ELSE event_queue
       /\ ws_pc' = IF m \in {"event", "end_stream"} THEN "recv" ELSE "finally"
       /\ ws_end' = CASE m = "event" -> ws_end
                      [] m = "garbage" -> "error"
                      [] OTHER -> m
       /\ client_sent' = IF m = "garbage" /\ client_open
                           THEN Append(client_sent, Msg("error", 0, <<>>, "ws"))
                           ELSE client_sent
  /\ UNCHANGED <<WsFrame, client_open, n_cl, pe_pc, shutdown>>

\* One round of the receive loop (670-685).
WsRecv ==
  /\ ws_pc = "recv"
  /\ inbox # <<>>
  /\ inbox' = Tail(inbox)
  /\ LET m == Head(inbox) IN
       /\ event_queue' = IF m = "event" THEN Append(event_queue, m)
                         ELSE event_queue
       /\ ws_pc' = IF m = "event" THEN "recv" ELSE "finally"
       /\ ws_end' = CASE m = "event" -> ws_end
                      [] m = "garbage" -> "error"
                      [] OTHER -> m
       /\ client_sent' = IF m = "garbage" /\ client_open
                           THEN Append(client_sent, Msg("error", 0, <<>>, "ws"))
                           ELSE client_sent
  /\ UNCHANGED <<WsFrame, client_open, n_cl, pe_pc, shutdown>>

\* WsFinally awaiting the task without the stop sentinel.
M_WsFinallyNoSentinel ==
  /\ ws_pc = "finally"
  /\ ws_pc' = IF pe_pc # "none" THEN "await" ELSE "close"
  /\ UNCHANGED <<WsFrame, client_open, client_sent, n_cl, pe_pc, inbox,
                 event_queue, ws_end, shutdown>>

\* The finally block (689-692): with process_events started, the stop
\* sentinel is enqueued and the task awaited.
WsFinally ==
  /\ ws_pc = "finally"
  /\ IF pe_pc # "none"
       THEN /\ event_queue' = Append(event_queue, "None")
            /\ shutdown' = [shutdown EXCEPT !.sentinel = @ + 1]
            /\ ws_pc' = "await"
       ELSE /\ ws_pc' = "close"
            /\ UNCHANGED <<event_queue, shutdown>>
  /\ UNCHANGED <<WsFrame, client_open, client_sent, n_cl, pe_pc, inbox,
                 ws_end>>

\* await process_task returns once the task has ended (692).
WsAwaited ==
  /\ ws_pc = "await"
  /\ pe_pc = "done"
  /\ ws_pc' = "close"
  /\ shutdown' = [shutdown EXCEPT !.awaited = @ + 1]
  /\ UNCHANGED <<WsFrame, client_open, client_sent, n_cl, pe_pc, inbox,
                 event_queue, ws_end>>

\* client_websocket.close() with whatever it raises swallowed (693-696);
\* the handler returns.
WsClose ==
  /\ ws_pc = "close"
  /\ ws_pc' = "returned"
  /\ client_open' = FALSE
  /\ shutdown' = [shutdown EXCEPT !.closed = @ + 1]
  /\ close_code' = IF close_code = 0 THEN NormalClosure ELSE close_code
  /\ UNCHANGED <<WsRest, ws_flow, client_sent, n_cl, pe_pc, inbox, event_queue,
                 ws_end>>

\* process_events takes the next item (616-618, 666); None ends the task.
PeGet ==
  /\ pe_pc = "get"
  /\ event_queue # <<>>
  /\ event_queue' = Tail(event_queue)
  /\ pe_pc' = IF Head(event_queue) = "None" THEN "done" ELSE "build"
  /\ UNCHANGED <<WsFrame, client_open, client_sent, n_cl, ws_pc, inbox,
                 ws_end, shutdown>>

\* The executor's stream is read to its end (626-654).
PeBuildOk ==
  /\ pe_pc = "build"
  /\ pe_pc' = "get"
  /\ UNCHANGED <<WsFrame, client_open, client_sent, n_cl, ws_pc, inbox,
                 event_queue, ws_end, shutdown>>

\* PeBuildFail with the exception ending the task.
M_PeBuildFailStop(disconnect) ==
  /\ pe_pc = "build"
  /\ client_sent' = client_sent
  /\ pe_pc' = "done"
  /\ UNCHANGED <<WsFrame, client_open, n_cl, ws_pc, inbox, event_queue,
                 ws_end, shutdown>>

\* The executor or its stream raises (655-662): the error is sent to the
\* client; on the closed socket the send either raises
\* WebSocketDisconnect, which ends the task (661-662), or raises something
\* else, which 663 catches.
PeBuildFail(disconnect) ==
  /\ pe_pc = "build"
  /\ client_sent' = IF client_open
                      THEN Append(client_sent, Msg("error", 0, <<>>, "pe"))
                      ELSE client_sent
  /\ pe_pc' = IF ~client_open /\ disconnect THEN "done" ELSE "get"
  /\ UNCHANGED <<WsFrame, client_open, n_cl, ws_pc, inbox, event_queue,
                 ws_end, shutdown>>

\* ---------------------------------------------------------- specifications
\* The VAD monitor with the pump that feeds it and the item events that set
\* the speaking flag.
NextVad ==
  \/ ClientDisconnect
  \/ UpstreamClose
  \/ \E size \in ChunkSizes : PumpAudio(size)
  \/ PumpClientGone
  \/ FwdItemAdded
  \/ FwdItemDone
  \/ FwdClientGone
  \/ FwdUpstreamGone
  \/ VadPass
  \/ VadCancelReturn

SpecVad == Init /\ [][NextVad]_vars

\* The tool-call dispatcher: function-call events and the tasks they start.
TaskIds == 1..Cardinality(CallIds)

NextTool ==
  \/ ClientDisconnect
  \/ UpstreamClose
  \/ FwdCallAdded(CallIds)
  \/ \E tok \in ArgTokens : FwdArgsDelta(tok)
  \/ FwdArgsDone
  \/ FwdClientGone
  \/ FwdUpstreamGone
  \/ \E i \in TaskIds : ToolStart(i)
  \/ \E i \in TaskIds : ToolBuildReturn(i)
  \/ \E i \in TaskIds : ToolRaise(i)
  \/ \E i \in TaskIds, line \in Lines : ToolLine(i, line)
  \/ \E i \in TaskIds : ToolStreamEnd(i)
  \/ \E i \in TaskIds : ToolCreate(i)

\* The module as shipped: barge-in is off (54) and no VAD monitor is started.
InitDefault == Init /\ ~barge_in_enabled

SpecTool == InitDefault /\ [][NextTool]_vars

\* The dispatcher in a session with one function call, under the event
\* loop's scheduling: a task that can run is run, and build_flow and its
\* progress stream come to an end.
NextToolOne ==
  \/ ClientDisconnect
  \/ UpstreamClose
  \/ FwdCallAdded({1})
  \/ \E tok \in ArgTokens : FwdArgsDelta(tok)
  \/ FwdArgsDone
  \/ FwdClientGone
  \/ FwdUpstreamGone
  \/ ToolStart(1)
  \/ ToolBuildReturn(1)
  \/ ToolRaise(1)
  \/ \E line \in Lines : ToolLine(1, line)
  \/ ToolStreamEnd(1)
  \/ ToolCreate(1)

FairSpecTool ==
  /\ InitDefault
  /\ [][NextToolOne]_vars
  /\ WF_vars(ToolStart(1))
  /\ WF_vars(ToolBuildReturn(1) \/ ToolRaise(1))
  /\ WF_vars(ToolStreamEnd(1) \/ ToolRaise(1))
  /\ WF_vars(ToolCreate(1))

\* The session from streaming to the handler's return: both pumps, the
\* text events and the TTS bridges they start.
BridgeIds == 1..MaxTextEvents

BridgeStep ==
  \/ \E k \in BridgeIds : BridgeStart(k)
  \/ \E k \in BridgeIds, src \in KeySources : BridgeKeyFound(k, src)
  \/ \E k \in BridgeIds : BridgeLookupError(k)
  \/ \E k \in BridgeIds : BridgeKeyMissing(k)
  \/ \E k \in BridgeIds : Transfer(k)
  \/ \E k \in BridgeIds : ThreadGet(k)
  \/ \E k \in BridgeIds : ThreadAudio(k)
  \/ \E k \in BridgeIds : LoopSendAudio(k)
  \/ \E k \in BridgeIds : ThreadEnd(k)
  \/ \E k \in BridgeIds : ThreadTtsError(k)

\* The steps the session takes by itself, with no further message from
\* either peer.
SessionStep ==
  \/ PumpClientGone
  \/ FwdUpstreamGone
  \/ HandlerReturn
  \/ BridgeStep

NextSession ==
  \/ ClientDisconnect
  \/ UpstreamClose
  \/ FwdTextDelta
  \/ FwdTextDone
  \/ FwdClientGone
  \/ SessionStep

SpecSession == InitDefault /\ [][NextSession]_vars

\* The /ws/{flow_id} endpoint.
WsStep ==
  \/ \E outcome \in {"ok", "no_chat_input", "error"} : WsSetup(outcome)
  \/ WsRecv
  \/ WsFinally
  \/ WsAwaited
  \/ WsClose
  \/ PeGet
  \/ PeBuildOk
  \/ \E disconnect \in BOOLEAN : PeBuildFail(disconnect)

NextWs ==
  \/ \E m \in WsMessages : WsClientSend(m)
  \/ WsClientDisconnect
  \/ WsStep

SpecWs == InitDefault /\ [][NextWs]_vars

\* The event loop runs every task that is ready, and each executor run
\* ends.
FairSpecWs ==
  /\ SpecWs
  /\ WF_vars(\E outcome \in {"ok", "no_chat_input", "error"} : WsSetup(outcome))
  /\ WF_vars(WsRecv)
  /\ WF_vars(WsFinally)
  /\ WF_vars(WsAwaited)
  /\ WF_vars(WsClose)
  /\ WF_vars(PeGet)
  /\ WF_vars(PeBuildOk \/ \E disconnect \in BOOLEAN : PeBuildFail(disconnect))

\* Two sessions of one process: this session's elevenlabs.config messages
\* and TTS bridges, and what the other session does to the module globals.
NextProcess ==
  \/ ClientDisconnect
  \/ \E enabled \in BOOLEAN, voice \in Voices : PumpConfig(enabled, voice)
  \/ PumpClientGone
  \/ FwdTextDelta
  \/ FwdTextDone
  \/ \E k \in BridgeIds : BridgeStart(k)
  \/ \E k \in BridgeIds, src \in KeySources : BridgeKeyFound(k, src)
  \/ \E k \in BridgeIds : BridgeLookupError(k)
  \/ \E k \in BridgeIds : BridgeKeyMissing(k)
  \/ \E enabled \in BOOLEAN, voice \in Voices : OtherConfig(enabled, voice)
  \/ OtherLookupStart
  \/ OtherKeyFound

SpecProcess == InitDefault /\ [][NextProcess]_vars

\* One run of the text chunker over any sequence of fragments, timeouts
\* and the end-of-stream sentinel.
NextChunker ==
  \/ \E text \in Fragments : ChunkFragment(text)
  \/ ChunkTimeout
  \/ ChunkSentinel

SpecChunker == InitDefault /\ [][NextChunker]_vars

\* The client-to-upstream pump alone, with both peers free to close.
NextPump ==
  \/ ClientDisconnect
  \/ UpstreamClose
  \/ \E size \in ChunkSizes : PumpAudio(size)
  \/ \E type \in PassTypes : PumpOther(type)
  \/ \E enabled \in BOOLEAN, voice \in Voices : PumpConfig(enabled, voice)
  \/ PumpClientGone

SpecPump == InitDefault /\ [][NextPump]_vars



\* The TTS path alone: text events and the bridges they start, with the
\* TTS client created from the key found in the user's variables.
TtsStep ==
  \/ \E k \in BridgeIds : BridgeStart(k)
  \/ \E k \in BridgeIds : BridgeKeyFound(k, "variable")
  \/ \E k \in BridgeIds : Transfer(k)
  \/ \E k \in BridgeIds : ThreadGet(k)
  \/ \E k \in BridgeIds : ThreadAudio(k)
  \/ \E k \in BridgeIds : LoopSendAudio(k)
  \/ \E k \in BridgeIds : ThreadEnd(k)
  \/ \E k \in BridgeIds : ThreadTtsError(k)

NextTts ==
  \/ ClientDisconnect
  \/ FwdTextDelta
  \/ FwdTextDone
  \/ FwdClientGone
  \/ TtsStep

SpecTts == InitDefault /\ [][NextTts]_vars

\* The two audio paths to the client: the upstream's own audio deltas, and
\* the text deltas with the TTS bridges they start, under the client's
\* elevenlabs.config messages, while both sockets stay open.
NextAudio ==
  \/ \E enabled \in BOOLEAN, voice \in Voices : PumpConfig(enabled, voice)
  \/ FwdAudioDelta
  \/ FwdTextDelta
  \/ FwdTextDone
  \/ TtsStep

SpecAudio == InitDefault /\ [][NextAudio]_vars

\* The upstream-to-client direction with what else writes to the client
\* socket: events with and without a branch of their own, the second send
\* of the latter, and the first TTS bridge with its error message and its
\* audio frames.
NextRelay ==
  \/ ClientDisconnect
  \/ FwdAudioDelta
  \/ FwdError
  \/ \E type \in OtherUpTypes : FwdOther(type)
  \/ FwdResend
  \/ FwdTextDelta
  \/ FwdClientGone
  \/ BridgeStart(1)
  \/ BridgeKeyFound(1, "variable")
  \/ BridgeKeyMissing(1)
  \/ Transfer(1)
  \/ ThreadGet(1)
  \/ ThreadAudio(1)
  \/ LoopSendAudio(1)

SpecRelay == InitDefault /\ [][NextRelay]_vars

\* The VAD monitor fed with audio that decodes and audio that does not,
\* with the classifier free to fail and the upstream free to close.
NextMonitor ==
  \/ UpstreamClose
  \/ \E size \in ChunkSizes \cup {BadAudio} : PumpAudio(size)
  \/ FwdItemAdded
  \/ FwdItemDone
  \/ VadPass
  \/ VadCancelReturn
  \/ VadDecodeError

SpecMonitor == Init /\ [][NextMonitor]_vars

\* The resampler called on frames of every length up to MaxFrameBytes.
NextResample == \E len \in 0..MaxFrameBytes : Resample(len)

SpecResample == InitDefault /\ [][NextResample]_vars

\* The handler from accept (225) on: the key lookup, the flow description,
\* the upstream connection, and the client-to-upstream pump of the session
\* that follows.
InitSetup ==
  /\ InitRest
  /\ ~barge_in_enabled
  /\ openai_key = "unbound"
  /\ up_open = FALSE
  /\ h_pc = "lookup"
  /\ fo_pc = "none"
  /\ fc_pc = "none"

NextSetup ==
  \/ ClientDisconnect
  \/ UpstreamClose
  \/ \E outcome \in {"found", "InvalidToken", "ValueError", "other"},
        env \in EnvKeys : SetupLookup(outcome, env)
  \/ \E ok \in BOOLEAN : SetupDesc(ok)
  \/ \E ok \in BOOLEAN : SetupConnect(ok)
  \/ \E type \in PassTypes : PumpOther(type)
  \/ PumpClientGone

SpecSetup == InitSetup /\ [][NextSetup]_vars

\* Barge-in during a text turn: the audio pump and the VAD monitor, the
\* item and text events of the upstream, and the first bridge with its
\* transfer task and chunker.
NextBarge ==
  \/ \E size \in {960} : PumpAudio(size)
  \/ FwdItemAdded
  \/ FwdTextDelta
  \/ FwdTextDone
  \/ VadPass
  \/ VadCancelReturn
  \/ BridgeStart(1)
  \/ BridgeKeyFound(1, "variable")
  \/ Transfer(1)
  \/ ThreadGet(1)

InitBarge == Init /\ barge_in_enabled

SpecBarge == InitBarge /\ [][NextBarge]_vars

\* One bridge to its end, under the scheduling of the event loop and of
\* the worker thread: a task or a thread that can go on does go on, and a
\* TTS stream whose chunk sequence has ended comes to its end.  What the
\* peers send, and whether the TTS call fails, is left open.
NextTtsOne ==
  \/ ClientDisconnect
  \/ UpstreamClose
  \/ FwdTextDelta
  \/ FwdTextDone
  \/ FwdClientGone
  \/ FwdUpstreamGone
  \/ BridgeStart(1)
  \/ BridgeKeyFound(1, "variable")
  \/ Transfer(1)
  \/ ThreadGet(1)
  \/ ThreadAudio(1)
  \/ LoopSendAudio(1)
  \/ ThreadEnd(1)
  \/ ThreadTtsError(1)

FairSpecTts ==
  /\ InitDefault
  /\ [][NextTtsOne]_vars
  /\ WF_vars(FwdClientGone)
  /\ WF_vars(FwdUpstreamGone)
  /\ WF_vars(BridgeStart(1))
  /\ WF_vars(BridgeKeyFound(1, "variable"))
  /\ WF_vars(Transfer(1))
  /\ WF_vars(ThreadGet(1))
  /\ WF_vars(LoopSendAudio(1))
  /\ WF_vars(ThreadEnd(1))

\* The accumulation of function calls alone: the item, delta and done
\* events of up to two calls in any order the upstream may send them, the
\* tasks created and not yet run.
NextCalls ==
  \/ ClientDisconnect
  \/ FwdItemAdded
  \/ FwdCallAdded(CallIds)
  \/ \E c \in CallIds, tok \in ArgTokens : FwdArgsDeltaOf(c, tok)
  \/ \E c \in CallIds : FwdArgsDoneOf(c)
  \/ FwdClientGone

SpecCalls == InitDefault /\ [][NextCalls]_vars

C5_SpeakingFlag == bot_speaking_flag = item_active

\* What a dispatch task wrote upstream.
Outputs(t) == CountType(t.sent, "function_call_output")
Creates(t) == CountType(t.sent, "response.create")
Finished(t) == t.pc \in {"done", "crashed"}
IsText(line) == line \in Texts

C3_EveryDoneAnswered ==
  (CountType(client_sent, "response.function_call_arguments.done") >= 1)
    ~> (\E i \in 1..Len(tasks) : Outputs(tasks[i]) >= 1)

\* C3 (tool-result liveness), amended: every dispatch (a done event received
\* while a call is pending) is eventually followed by its
\* function_call_output, unless the upstream socket closes.
C3_ToolResultLive ==
  (Len(tasks) >= 1)
    ~> ((Len(tasks) >= 1 /\ Outputs(tasks[1]) = 1) \/ ~up_open)

\* C3 witness: a dispatched call was answered on the open upstream socket
\* after it had read a progress event.
C3_Witness ==
  /\ Len(tasks) >= 1
  /\ up_open
  /\ tasks[1].events >= 1
  /\ Outputs(tasks[1]) = 1

C7_StreamingTermination ==
  ((~client_open \/ ~up_open) /\ ~ENABLED SessionStep) => h_pc = "returned"

\* A bridge that has begun and not ended: its task is suspended in the key
\* lookup or its worker thread lives.
BridgeActive(b) == b.ptd = "lookup" \/ b.th \notin {"none", "done"}
BridgeRunning(b) == b.ptd # "done" \/ b.th \notin {"none", "done"} \/ b.xfer = "run"

\* C8 (no orphaned tasks): when the flow-as-tool handler has returned and
\* the bridges have run as far as they can, no task the session spawned is
\* still running: not the VAD monitor, not a tool-call task, not a transfer
\* task, not a TTS bridge task or worker thread.
C8_NoOrphanedTasks ==
  (h_pc = "returned" /\ ~ENABLED BridgeStep) =>
    /\ vad_pc = "off"
    /\ \A i \in 1..Len(tasks) : Finished(tasks[i])
    /\ \A k \in 1..Len(bridges) : ~BridgeRunning(bridges[k])

\* C10 (single TTS bridge): at every moment at most one TTS bridge
\* invocation, a process_text_deltas task together with its worker thread,
\* is active in the session, counting a bridge from its task's first step.
C10_SingleBridge ==
  Cardinality({k \in 1..Len(bridges) : BridgeActive(bridges[k])}) <= 1

\* The client has sent something that ends the receive loop, or the
\* handler is past the loop.
EndPending ==
  \/ ws_pc \in {"finally", "await", "close"}
  \/ \E i \in 1..Len(inbox) : inbox[i] # "event"

Closed ==
  /\ ws_pc = "returned"
  /\ pe_pc \in {"none", "done"}
  /\ ~client_open
  /\ shutdown.closed >= 1

\* C6 (gateway teardown on /ws/{flow_id}): whatever the client sends and
\* however the executor runs end, once something ends the receive loop (an
\* end_stream, a disconnect, an exception) the handler stops the
\* process_events task, awaits it, closes the client socket and returns;
\* and it never returns with the task still running or the socket open.
C6_GatewayTeardown ==
  /\ EndPending ~> Closed
  /\ [](ws_pc = "returned" => Closed)

\* C6's case: the receive loop ended on an exception after an executor run
\* had failed, and the handler is Closed.
C6_Witness ==
  /\ Closed
  /\ ws_end = "error"
  /\ shutdown.awaited = 1
  /\ \E i \in 1..Len(client_sent) : client_sent[i].src = "pe"

\* C9 (end_stream idempotence on /ws/{flow_id}): once the first end_stream
\* or disconnect has been read, no step reads a further client message or
\* enqueues one, and each shutdown step (sentinel enqueued, task awaited,
\* socket closed) has run exactly once when the handler returns.
C9_EndStreamIdempotent ==
  /\ [][ws_end # "none" =>
          /\ Len(inbox') >= Len(inbox)
          /\ SubSeq(inbox', 1, Len(inbox)) = inbox
          /\ \/ event_queue' \in {event_queue, Append(event_queue, "None")}
             \/ event_queue # <<>> /\ event_queue' = Tail(event_queue)
          /\ ws_end' = ws_end
          /\ \A f \in DOMAIN shutdown : shutdown'[f] <= 1]_vars
  /\ [](ws_pc = "returned" /\ ws_end # "none" =>
          shutdown = [sentinel |-> 1, awaited |-> 1, closed |-> 1])

\* C9's case: the client sent end_stream twice and the handler has
\* returned, the second end_stream unread.
C9_Witness ==
  /\ ws_pc = "returned"
  /\ ws_end = "end_stream"
  /\ inbox # <<>>
  /\ Head(inbox) = "end_stream"

\* C11 (session isolation): the TTS enablement and voice this session uses
\* are those of its own last elevenlabs.config (the import values before
\* it), and neither the key nor the client it uses comes from another
\* session's user.
C11_SessionIsolation ==
  /\ use_elevenlabs = own_config.enabled
  /\ elevenlabs_voice = own_config.voice
  /\ elevenlabs_key # OtherUser
  /\ elevenlabs_client # OtherUser

\* What the chunker has taken: the latest item, and whether a timeout
\* occurred.
Took(kind, text) == consumed' = Append(consumed, Item(kind, text))
NoGaps == \A i \in 1..Len(consumed) : consumed[i].kind # "timeout"
Last(s) == s[Len(s)]

\* C12 (text chunker, boundary flush): after a run with no timeout every
\* chunk is non-empty, ends with one space and not two, and ends right
\* after a boundary character unless it is the final flush; the fragments
\* "Hello", ",", " world", "." give exactly two chunks, ending after ","
\* and after ".".
C12_BoundaryFlush ==
  (ck_pc = "done" /\ NoGaps) =>
    /\ \A i \in 1..Len(chunks) :
         LET c == chunks[i] IN
           /\ c # <<>>
           /\ Last(c) = " "
           /\ Len(c) >= 2
           /\ c[Len(c) - 1] # " "
           /\ c[Len(c) - 1] \in splitters \/ i = Len(chunks)
    /\ consumed = <<Item("text", Hello), Item("text", <<",">>),
                    Item("text", World), Item("text", <<".">>),
                    Item("None", <<>>)>>
         => /\ Len(chunks) = 2
            /\ chunks[1][Len(chunks[1]) - 1] = ","
            /\ chunks[2][Len(chunks[2]) - 1] = "."

\* C13 (text chunker, timeout flush): a timeout with a non-empty buffer
\* yields the buffer plus a space as one chunk and clears the buffer; a
\* timeout with the empty buffer yields nothing; "partial" followed by a
\* timeout gives exactly the chunk "partial ", also once the stream ends.
C13_TimeoutFlush ==
  /\ [][Took("timeout", <<>>) =>
          IF buffer # <<>>
            THEN chunks' = Append(chunks, buffer \o <<" ">>) /\ buffer' = <<>>
            ELSE chunks' = chunks /\ buffer' = buffer]_vars
  /\ [](/\ Len(consumed) >= 2
        /\ consumed[1] = Item("text", Partial)
        /\ consumed[2] = Item("timeout", <<>>)
        /\ \A i \in 3..Len(consumed) : consumed[i].kind # "text"
        => chunks = <<Partial \o <<" ">>>>)

\* C13's case: "partial", a timeout, then end of stream.
C13_Witness ==
  /\ consumed = <<Item("text", Partial), Item("timeout", <<>>),
                  Item("None", <<>>)>>
  /\ chunks = <<Partial \o <<" ">>>>
  /\ ck_pc = "done"

\* C14 (text chunker, empty fragments): taking an empty fragment yields no
\* chunk and leaves the buffer as it is.
C14_EmptyFragmentNoOp ==
  [][Took("text", <<>>) => chunks' = chunks /\ buffer' = buffer]_vars

\* C15 (text chunker, end of stream): taking the sentinel yields the buffer
\* plus a space once if the buffer is non-empty and nothing otherwise, and
\* ends the chunker; nothing is yielded after that.
C15_EndOfStream ==
  /\ [][Took("None", <<>>) =>
          /\ chunks' = IF buffer # <<>> THEN Append(chunks, buffer \o <<" ">>)
                       ELSE chunks
          /\ ck_pc' = "done"]_vars
  /\ [][ck_pc = "done" => chunks' = chunks]_vars

\* A message as the peer sees it, without the model's note of who wrote it.
Wire(m) == <<m.type, m.id, m.body>>
WireSeq(s) == [i \in 1..Len(s) |-> Wire(s[i])]
IsAppend(m) == m.type = "input_audio_buffer.append"
NonEmptyAppend(m) == IsAppend(m) /\ m.body # <<0>>
IsPassthrough(m) == m.type \in PassTypes
IsConfig(m) == m.type = "elevenlabs.config"
IsSessionUpdate(m) == m.type = "session.update"
\* s is t, or t without its last element because the pump ended in the send
\* of that element on the closed upstream socket.
ForwardedAs(s, t) ==
  \/ s = t
  \/ /\ fo_pc = "done"
     /\ ~up_open
     /\ t # <<>>
     /\ s = SubSeq(t, 1, Len(t) - 1)

\* C16 (client audio forwarding): the input_audio_buffer.append messages
\* sent upstream are the client's non-empty appends, one for one, with the
\* same audio and in the order received; empty audio is neither forwarded
\* nor queued for the VAD.
C16_AudioForwarding ==
  /\ ForwardedAs(WireSeq(SelectSeq(up_sent, IsAppend)),
                 WireSeq(SelectSeq(cl_read, NonEmptyAppend)))
  /\ \A i \in 1..Len(vad_queue) : vad_queue[i] # 0

\* C17 (VAD feeding is conditional on barge-in): with barge-in disabled the
\* VAD queue stays empty and no response.cancel is sent.
C17_VadFeeding ==
  ~barge_in_enabled => vad_queue = <<>> /\ NumCancels(up_sent) = 0

\* C18 (client passthrough): the messages of other types sent upstream are
\* the ones the client sent, one for one, unchanged and in the same order;
\* and everything the pump sends upstream is in the order of the client
\* messages it comes from.
C18_Passthrough ==
  /\ ForwardedAs(WireSeq(SelectSeq(up_sent, IsPassthrough)),
                 WireSeq(SelectSeq(cl_read, IsPassthrough)))
  /\ \A i, j \in 1..Len(up_sent) : i < j => up_sent[i].id <= up_sent[j].id

\* C18's case: two passthrough messages of different types, both forwarded
\* in the order sent.
C18_Witness ==
  /\ Len(cl_read) = 2
  /\ cl_read[1].type = "response.create"
  /\ cl_read[2].type = "conversation.item.create"
  /\ WireSeq(SelectSeq(up_sent, IsPassthrough))
       = <<Wire(cl_read[1]), Wire(cl_read[2])>>

\* The modalities the claim asks of the session.update for a selection.
WantedModalities(enabled) ==
  IF enabled THEN <<"text">> ELSE <<"text", "audio">>
WantedUpdate(m) == <<"session.update", m.id, WantedModalities(m.body[1])>>

\* C19 (elevenlabs.config handling): the selection is that of the last
\* elevenlabs.config; the session.update messages sent upstream are one per
\* elevenlabs.config, in order, each with the modalities of its selection;
\* no elevenlabs.config is sent upstream.
C19_ConfigHandling ==
  LET cfgs == SelectSeq(cl_read, IsConfig) IN
    /\ cfgs # <<>> =>
         /\ use_elevenlabs = cfgs[Len(cfgs)].body[1]
         /\ elevenlabs_voice = cfgs[Len(cfgs)].body[2]
    /\ ForwardedAs(WireSeq(SelectSeq(up_sent, IsSessionUpdate)),
                   [i \in 1..Len(cfgs) |-> WantedUpdate(cfgs[i])])
    /\ SelectSeq(up_sent, IsConfig) = <<>>

\* An audio delta of the upstream session, as forwarded to the client.
IsUpstreamAudio(m) == m.type = "response.audio.delta" /\ m.src = "upstream"
\* The audio frames the TTS bridges have sent to the client.
RECURSIVE LocalFrames(_)
LocalFrames(bs) ==
  IF bs = <<>> THEN 0 ELSE Head(bs).frames + LocalFrames(Tail(bs))

\* C20 (single audio source for the client): a step taken while ElevenLabs
\* is selected forwards no upstream response.audio.delta to the client; a
\* step taken while it is not selected puts no text delta on the TTS
\* bridge's queue and sends no locally synthesized audio frame.
C20_SingleAudioSource ==
  [][/\ use_elevenlabs =>
          Len(SelectSeq(client_sent', IsUpstreamAudio))
            = Len(SelectSeq(client_sent, IsUpstreamAudio))
     /\ ~use_elevenlabs =>
          /\ ~(/\ Len(text_delta_queue') > Len(text_delta_queue)
                /\ ~text_delta_queue'[Len(text_delta_queue')].eos)
          /\ LocalFrames(bridges') = LocalFrames(bridges)]_vars

IsUpstream(m) == m.src = "upstream"
\* How often the event received as number s was written to the client.
Copies(s) == Len(SelectSeq(client_sent, LAMBDA m : IsUpstream(m) /\ m.seq = s))

\* C21 (upstream-to-client ordering): the upstream events on the client
\* socket are in the order forward_to_client received them, whatever else
\* was written to the socket in between.
C21_UpstreamOrder ==
  LET u == SelectSeq(client_sent, IsUpstream) IN
    \A i, j \in 1..Len(u) : i < j => u[i].seq <= u[j].seq

\* C21's case: two upstream events on the client socket with a message of
\* the TTS bridge written between them.
C21_Witness ==
  \E i, j, k \in 1..Len(client_sent) :
    /\ i < j /\ j < k
    /\ IsUpstream(client_sent[i]) /\ client_sent[i].seq = 1
    /\ client_sent[j].src = "tts"
    /\ IsUpstream(client_sent[k]) /\ client_sent[k].seq = 2

\* C22 (upstream events are forwarded exactly once): every event received
\* is on the client socket exactly one time; only the event whose forward
\* failed on the closed client socket is missing.
C22_ForwardedOnce ==
  \A s \in 1..n_up :
    \/ Copies(s) = 1
    \/ Copies(s) = 0 /\ s = n_up /\ ~client_open /\ fc_pc = "done"

\* The audio frames of bridge k on the client socket, in order.
FramesOf(k) ==
  SelectSeq(client_sent,
            LAMBDA m : m.src = "tts" /\ m.type = "response.audio.delta"
                       /\ m.id = k)

\* C23 (TTS frame order): the frames of one bridge reach the client in the
\* order the TTS stream yielded them, and no bridge has more than one frame
\* handed to the event loop and not yet sent.
C23_FrameOrder ==
  \A k \in 1..Len(bridges) :
    /\ Cardinality(bridges[k].pending) <= 1
    /\ \A i \in 1..Len(FramesOf(k)) : FramesOf(k)[i].body = <<i>>

\* C23's case: a bridge that has delivered two frames.
C23_Witness ==
  \E k \in 1..Len(bridges) : Len(FramesOf(k)) = 2 /\ bridges[k].frames = 2

\* C24 (VAD monitor resilience): whatever fails while a chunk or a frame is
\* handled, the monitor keeps running: it is started with barge-in enabled
\* and never ends while the session lasts.
C24_MonitorResilience ==
  (barge_in_enabled /\ h_pc = "streaming") => vad_pc \in {"get", "cancel"}

\* The bytes a step of the monitor takes off the accumulator and hands to
\* the resampler and the classifier.
Classified ==
  IF vad_pc = "get" /\ Len(vad_queue') < Len(vad_queue)
       /\ Head(vad_queue) # BadAudio
    THEN vad_audio_buffer + Head(vad_queue) - vad_audio_buffer'
    ELSE vad_audio_buffer - vad_audio_buffer'

\* C30 (VAD accumulator bound): between two passes the accumulator holds
\* less than one 24 kHz frame, and what a step of the monitor classifies
\* is a whole number of frames of BYTES_PER_24K_FRAME bytes each.
C30_AccumulatorBound ==
  /\ [](vad_pc = "get" =>
          vad_audio_buffer \in 0..(BYTES_PER_24K_FRAME - 1))
  /\ [][/\ Classified >= 0
        /\ Classified % BYTES_PER_24K_FRAME = 0
        /\ \A i \in 1..Len(Frames(vad_audio_buffer)) :
             Frames(vad_audio_buffer)[i] = BYTES_PER_24K_FRAME]_vars

\* C30's case: a chunk of half a frame and a chunk of one frame have been
\* processed, one frame was classified and half a frame is left.
C30_Witness ==
  /\ vad_pc = "get"
  /\ vad_queue = <<>>
  /\ Len(cl_read) = 2
  /\ cl_read[1].body = <<480>>
  /\ cl_read[2].body = <<960>>
  /\ vad_audio_buffer = 480

\* C29 (resampler frame size): a call of resample_24k_to_16k on a frame of
\* BYTES_PER_24K_FRAME bytes returns, without raising,
\* BYTES_PER_16K_FRAME bytes.
C29_ResamplerFrameSize ==
  (resampled.called /\ resampled.arg = BYTES_PER_24K_FRAME) =>
    (~resampled.raised /\ resampled.len = BYTES_PER_16K_FRAME)

\* C29's case: the resampler has been called on a frame of
\* BYTES_PER_24K_FRAME bytes.
C29_Witness == resampled.called /\ resampled.arg = BYTES_PER_24K_FRAME

\* A step in which the TTS call of bridge k, or the send of one of its
\* frames, raises.
TtsFailure(k) == ThreadTtsError(k) \/ (~client_open /\ LoopSendAudio(k))
\* A bridge whose thread ended before its chunker saw the end of the turn.
Failed(b) == b.th = "done" /\ \A i \in 1..Len(b.got) : ~b.got[i].eos

\* C25 (TTS failure is per-turn): a step in which the TTS call or a frame
\* send of a bridge raises ends that bridge's thread and changes nothing
\* else: both pumps, the sockets, the text queue and the other bridges
\* are as before; and whatever has failed before, the text.done event
\* clears text_delta_task and the first text delta after it starts a new
\* bridge.
C25_TtsFailurePerTurn ==
  /\ [][\A k \in BridgeIds : TtsFailure(k) =>
          /\ bridges'[k].th = "done"
          /\ UNCHANGED <<pcVars, sockVars, logVars, text_delta_queue,
                         text_delta_task, text_turn>>
          /\ Len(bridges') = Len(bridges)
          /\ \A j \in 1..Len(bridges) : j # k => bridges'[j] = bridges[j]]_vars
  /\ [][text_turn' # text_turn => text_delta_task' = 0]_vars
  /\ [][(text_delta_task = 0 /\ Len(text_delta_queue') > Len(text_delta_queue))
          => \/ text_delta_queue'[Len(text_delta_queue')].eos
             \/ /\ bridges' = Append(bridges, NewBridge)
                /\ text_delta_task' = Len(bridges')]_vars

\* C25's case: the first turn's bridge failed, and the bridge the next
\* turn started has delivered an audio frame to the connected client.
C25_Witness ==
  /\ Len(bridges) = 2
  /\ Failed(bridges[1])
  /\ bridges[1].frames = 0
  /\ bridges[2].frames >= 1
  /\ client_open
  /\ fc_pc = "recv"

\* C26 (missing TTS credential): a key lookup of a bridge that ends with
\* no key sends the api_key_missing error to the connected client, creates
\* no TTS client and starts no worker thread, and leaves both pumps
\* running.
C26_MissingTtsCredential ==
  [][\A k \in BridgeIds :
       (/\ k <= Len(bridges)
        /\ bridges[k].ptd = "lookup"
        /\ bridges'[k].ptd # "lookup"
        /\ elevenlabs_key' = "None")
       => /\ elevenlabs_client' = "None"
          /\ bridges'[k].th = "none"
          /\ client_open => client_sent' = Append(client_sent, KeyMissingError)
          /\ UNCHANGED pcVars]_vars

\* C28 (no input node): once the flow was found to have no ChatInput node,
\* the handler has closed the client socket with NoChatInputCode, is never
\* in its receive loop, has no process_events task and nothing queued for
\* one, and the executor is never invoked.
C28_NoInputNode ==
  ws_flow = "no_chat_input" =>
    /\ close_code = NoChatInputCode
    /\ ~client_open
    /\ ws_pc \in {"finally", "close", "returned"}
    /\ pe_pc = "none"
    /\ event_queue = <<>>

\* C28's case: the handler has returned from a flow without ChatInput
\* while the client had messages sent that were never read.
C28_Witness ==
  /\ ws_flow = "no_chat_input"
  /\ ws_pc = "returned"
  /\ inbox # <<>>

\* C27 (missing upstream credential): when the handler has ended after a
\* key lookup that produced no usable key, and the client is still there,
\* it ended by returning, the client was sent the OPENAI_API_KEY error
\* event, and no upstream connection was opened.
C27_MissingUpstreamCredential ==
  (/\ h_pc \in {"returned", "raised"}
   /\ client_open
   /\ (openai_key = "unbound" \/ ~Usable(openai_key))) =>
    /\ h_pc = "returned"
    /\ \E i \in 1..Len(client_sent) : client_sent[i] = OpenAiKeyMissing
    /\ ~up_open
    /\ fo_pc = "none"

\* What the transfer task and the chunker of a bridge have taken so far, in
\* the order they took it.
Taken(b) == b.got \o b.sync_q

\* C31 (per-turn text stream): whatever the transfer task and the chunker
\* of a bridge have taken from the shared text-delta queue is a fragment or
\* the sentinel of the turn the bridge was started in, and a sentinel is
\* the last thing they take.
C31_PerTurnTextStream ==
  \A k \in 1..Len(bridges) :
    \A i \in 1..Len(Taken(bridges[k])) :
      /\ Taken(bridges[k])[i].turn = bridges[k].turn
      /\ Taken(bridges[k])[i].eos => i = Len(Taken(bridges[k]))

\* The fragments on a sequence of queue items that belong to a turn in ts.
FragmentsOf(q, ts) == Len(SelectSeq(q, LAMBDA x : ~x.eos /\ x.turn \in ts))

\* C32 (no new TTS submissions after cancellation): once a response.cancel
\* has been sent during a text turn, no step puts a further fragment of
\* that turn on the text-delta queue, and no step passes one on to the
\* bridge's synchronous queue or to its chunker.
C32_NoSubmissionAfterCancel ==
  [][/\ FragmentsOf(text_delta_queue', cancelled)
          <= FragmentsOf(text_delta_queue, cancelled)
     /\ \A k \in 1..Len(bridges) :
          /\ FragmentsOf(Taken(bridges'[k]), cancelled)
               <= FragmentsOf(Taken(bridges[k]), cancelled)
          /\ FragmentsOf(bridges'[k].got, cancelled)
               <= FragmentsOf(bridges[k].got, cancelled)]_vars

\* The worker thread of a bridge has been started and has not ended.
ThreadAlive(b) == b.th \in {"run", "send", "send_last", "flush"}

\* The turn of the first bridge is over: its response.text.done has come,
\* or a cancellation was sent during it, or the upstream-to-client pump
\* has ended with the session.
TurnOver ==
  /\ Len(bridges) >= 1
  /\ \/ text_turn > bridges[1].turn
     \/ bridges[1].turn \in cancelled
     \/ fc_pc = "done"

\* C33 (TTS worker termination): a worker thread that is running when its
\* turn is over comes to its end.
C33_WorkerTermination ==
  (TurnOver /\ ThreadAlive(bridges[1]))
    ~> (Len(bridges) >= 1 /\ bridges[1].th = "done")

\* The worker thread of a bridge is blocked in result() (393).
Waiting(b) == b.th \in {"send", "send_last"}

\* C34 (deadlock freedom of the thread bridge): a worker thread blocked on
\* the delivery of a frame is released; and whatever the thread is doing,
\* the event loop can run the send handed to it and the transfer task can
\* move a queued item to the synchronous queue.
C34_BridgeDeadlockFree ==
  /\ (Len(bridges) >= 1 /\ Waiting(bridges[1]))
       ~> (Len(bridges) >= 1 /\ ~Waiting(bridges[1]))
  /\ [](Len(bridges) >= 1 =>
         /\ bridges[1].pending # {} => ENABLED LoopSendAudio(1)
         /\ (bridges[1].xfer = "run" /\ text_delta_queue # <<>>)
              => ENABLED Transfer(1))

\* The thread was released after its first frame went to the client over
\* the open sockets and has handed over the second.
C34_Witness ==
  /\ Len(bridges) >= 1
  /\ bridges[1].frames = 1
  /\ Waiting(bridges[1])
  /\ client_open
  /\ up_open

\* A step of the worker thread of some bridge (372-399).
ThreadStep ==
  \E k \in BridgeIds :
    ThreadGet(k) \/ ThreadAudio(k) \/ ThreadEnd(k) \/ ThreadTtsError(k)

\* C35 (session state is written on the session's scheduling context
\* only): a step of the worker thread changes neither the speaking flag,
\* the VAD accumulator, the pending function call and its arguments, the
\* bridge task reference, nor what has been written to either socket.
C35_ThreadWritesNothing ==
  [][ThreadStep =>
       UNCHANGED <<bot_speaking_flag, vad_audio_buffer, function_call,
                   function_call_args, text_delta_task, client_sent,
                   up_sent>>]_vars

\* A thread has run to its end with one frame delivered, after the turn's
\* response.text.done reset the task reference.
C35_Witness ==
  \E k \in 1..Len(bridges) :
    /\ bridges[k].th = "done"
    /\ bridges[k].frames = 1
    /\ Len(FramesOf(k)) = 1
    /\ text_delta_task = 0

\* The argument fragments of call c among the events s, in order.
RECURSIVE DeltasOf(_, _)
DeltasOf(s, c) ==
  IF s = <<>> THEN <<>>
  ELSE (IF /\ Head(s).type = "response.function_call_arguments.delta"
           /\ Head(s).id = c
          THEN Head(s).body ELSE <<>>) \o DeltasOf(Tail(s), c)

\* C36 (pending function call accumulation): a step that receives the
\* arguments-done event of a call creates one task, for that call's id and
\* with the argument fragments received for that call, in order.
C36_CallAccumulation ==
  [][(/\ Len(client_sent') = Len(client_sent) + 1
      /\ client_sent'[Len(client_sent')].type
           = "response.function_call_arguments.done")
     => /\ Len(tasks') = Len(tasks) + 1
        /\ tasks'[Len(tasks')].call = client_sent'[Len(client_sent')].id
        /\ tasks'[Len(tasks')].args
             = DeltasOf(client_sent, client_sent'[Len(client_sent')].id)]_vars

\* The error message of 658-660.
FlowError == Msg("error", 0, <<>>, "pe")

\* process_events has taken the stop sentinel.
SentinelTaken ==
  /\ shutdown.sentinel = 1
  /\ \A i \in 1..Len(event_queue) : event_queue[i] # "None"

\* C37 (per-event error absorption on /ws/{flow_id}): a failure of the
\* executor leaves the handler where it is, and with the client connected
\* it sends the error message and takes the task back to the queue; the
\* task has ended only after taking the stop sentinel or with the client
\* gone; and a task at the queue takes what is queued.
C37_ErrorAbsorption ==
  /\ [][(\E disconnect \in BOOLEAN : PeBuildFail(disconnect)) =>
          /\ ws_pc' = ws_pc
          /\ event_queue' = event_queue
          /\ IF client_open
               THEN /\ client_sent' = Append(client_sent, FlowError)
                    /\ pe_pc' = "get"
               ELSE pe_pc' \in {"get", "done"}]_vars
  /\ [](pe_pc = "done" => SentinelTaken \/ ~client_open)
  /\ []((pe_pc = "get" /\ event_queue # <<>>) => ENABLED PeGet)

\* After a failure was reported the task is running the next event.
C37_Witness ==
  /\ pe_pc = "build"
  /\ \E i \in 1..Len(client_sent) : client_sent[i] = FlowError
  /\ client_open

\* C38 (barge-in does not clobber a later turn): when the monitor comes
\* back from the cancellation send after another output item has been
\* added, the flag that item set stays set.
C38_NoLateReset ==
  [][(/\ vad_pc = "cancel"
      /\ vad_pc' # "cancel"
      /\ cancel_turn < turn
      /\ bot_speaking_flag)
     => bot_speaking_flag']_vars

\* The step receives a response.function_call_arguments.done event.
DoneReceived ==
  /\ Len(client_sent') = Len(client_sent) + 1
  /\ client_sent'[Len(client_sent')].type
       = "response.function_call_arguments.done"

\* C39 (tool dispatch needs a pending call): a done event received with no
\* call pending creates no task and writes nothing upstream; one received
\* with a call pending creates one task and clears the pending call and
\* the argument buffer; and no two tasks were created for the same call.
C39_DispatchNeedsPending ==
  /\ [][DoneReceived =>
          IF function_call = NoCall
            THEN tasks' = tasks /\ up_sent' = up_sent
            ELSE /\ Len(tasks') = Len(tasks) + 1
                 /\ function_call' = NoCall
                 /\ function_call_args' = <<>>]_vars
  /\ [](\A i, j \in 1..Len(tasks) :
          tasks[i].call = tasks[j].call => i = j)

\* Two done events were received for one call, and the one task they
\* created has invoked the executor.
C39_Witness ==
  /\ CountType(client_sent, "response.function_call_arguments.done") = 2
  /\ n_calls = 1
  /\ Len(tasks) = 1
  /\ tasks[1].invoked = 1

\* C40 (sequential FIFO processing on /ws/{flow_id}): the task takes the
\* queued items one at a time from the head of the queue, an event is
\* taken only while no executor run is in flight, and when the task has
\* ended every event the handler enqueued has been taken.
C40_SequentialFifo ==
  /\ [][Len(event_queue') < Len(event_queue) =>
          /\ event_queue' = Tail(event_queue)
          /\ pe_pc = "get"
          /\ pe_pc' = IF Head(event_queue) = "None" THEN "done" ELSE "build"]_vars
  /\ [](pe_pc = "done" =>
         \A i \in 1..Len(event_queue) : event_queue[i] # "event")

====
